---- MODULE Spec2Model ----
(***************************************************************************)
(* A state-machine model of the SOFS13 file system of the airport-rhapsody *)
(* repository: the formatter (mkfs_sofs13), the inode and data-cluster     *)
(* allocators (sofs_ifuncs_1), inode access (sofs_ifuncs_2), file-cluster  *)
(* handling (sofs_ifuncs_3) and directory-entry handling (sofs_ifuncs_4).  *)
(*                                                                         *)
(* The device is the superblock, the inode table, the cluster-to-inode     *)
(* mapping table, the bitmap of free clusters and the data zone.  Every    *)
(* internal operation is an operator from a file-system record to a result *)
(* record [st, err, out]; an action applies one operation and commits the  *)
(* state the operation leaves behind, whether it succeeded or failed.      *)
(***************************************************************************)
EXTENDS Integers, Sequences, FiniteSets, TLC

(* ------------------------------------------------------------------ *)
(* Sizes.  The on-disk layout constants are scaled down.               *)
(* ------------------------------------------------------------------ *)
\* bytes of a block of the bitmap table (512 on the real device)
BLOCK_SIZE == 2
\* inodes per block of the inode table (8 on the real device)
IPB == 2
\* direct references of an inode (7 on the real device)
N_DIRECT == 1
\* references per cluster of references (512 on the real device)
RPC == 2
\* directory entries per cluster (32 on the real device)
DPC == 3
\* characters of the longest name of a directory entry (59 on the real device)
MAX_NAME == 2
\* size of the retrieval and insertion caches (50 on the real device)
DZONE_CACHE_SIZE == 2

\* the all-ones reference 0xFFFFFFFF of the device, held here as the largest
\* value of the model's integers: it is above every valid reference and no
\* arithmetic is done on it
NULL_INODE == 2147483647
NULL_CLUSTER == 2147483647

INODE_FREE == 4096
INODE_DIR == 2048
INODE_FILE == 1024
INODE_SYMLINK == 512
INODE_TYPE_MASK == 3584
\* rwx for user, group and other
INODE_PERM_ALL == 511

OK == "OK"

BITS_PER_BLOCK == 8 * BLOCK_SIZE

\* m & b for a single-bit mask b
HasBit(m, b) == (m \div b) % 2 = 1

\* m | b for a single-bit mask b
SetBit(m, b) == IF HasBit(m, b) THEN m ELSE m + b

\* m & ~b for a single-bit mask b
ClearBit(m, b) == IF HasBit(m, b) THEN m - b ELSE m

\* mode & INODE_TYPE_MASK
TypeOf(mode) == ((mode \div INODE_SYMLINK) % 8) * INODE_SYMLINK

\* 0x80 >> nBit
Mask(nBit) == 2 ^ (7 - nBit)

Min(a, b) == IF a < b THEN a ELSE b

Range(f) == {f[i] : i \in DOMAIN f}

\* the element of a singleton: The({e : x \in {v}}) is e with x standing for
\* the value of v, the way a local variable holds the result of a call
The(S) == CHOOSE e \in S : TRUE

(* ------------------------------------------------------------------ *)
(* State.                                                              *)
(* ------------------------------------------------------------------ *)
VARIABLES
  sb,       \* the superblock
  itable,   \* the inode table: inode number -> inode
  ctinmt,   \* the cluster-to-inode mapping table
  bmapt,    \* the bitmap table: block -> byte offset -> byte
  dzone,    \* the data zone: cluster number -> contents
  sirc,     \* basicoper slot of the single-indirect references cluster
  drc,      \* basicoper slot of the direct references cluster
  proc,     \* the calling process: uid, gid
  nops,     \* operations called so far
  ret       \* the last operation and what it returned

vars == <<sb, itable, ctinmt, bmapt, dzone, sirc, drc, proc, nops, ret>>

\* the file system as one value
FS == [sb |-> sb, itable |-> itable, ctinmt |-> ctinmt, bmapt |-> bmapt,
       dzone |-> dzone, sirc |-> sirc, drc |-> drc]

Commit(s) ==
  /\ sb' = s.sb
  /\ itable' = s.itable
  /\ ctinmt' = s.ctinmt
  /\ bmapt' = s.bmapt
  /\ dzone' = s.dzone
  /\ sirc' = s.sirc
  /\ drc' = s.drc

Res(s, e, o) == [st |-> s, err |-> e, out |-> o]

(* ------------------------------------------------------------------ *)
(* Conversions of references (sofs_basicoper).                         *)
(* ------------------------------------------------------------------ *)
soConvertRefInT(nInode) == [nBlk |-> nInode \div IPB, offset |-> nInode % IPB]

soConvertRefBMapT(ref) ==
  [nBlk |-> ref \div (8 * BLOCK_SIZE),
   byteOff |-> (ref % (8 * BLOCK_SIZE)) \div 8,
   bitOff |-> (ref % (8 * BLOCK_SIZE)) % 8]

\* the bit of cluster ref in the bitmap table
BMapBit(bm, ref) ==
  LET c == soConvertRefBMapT(ref)
  IN  HasBit(bm[c.nBlk][c.byteOff], Mask(c.bitOff))

(* ------------------------------------------------------------------ *)
(* Formatting (mkfs_sofs13).                                           *)
(* ------------------------------------------------------------------ *)
\* the value time(NULL) stores in atime and mtime
time == 1000000

FreeRefs == [k \in 0..(N_DIRECT - 1) |-> NULL_CLUSTER]

EmptyCache == [i \in 0..(DZONE_CACHE_SIZE - 1) |-> NULL_CLUSTER]

CeilDiv(a, b) == IF a % b = 0 THEN a \div b ELSE a \div b + 1

fillInSuperBlock(itotal, nclusttotal) ==
  [itable_size |-> itotal \div IPB,
   itotal |-> itotal,
   ifree |-> itotal - 1,
   ihead |-> 1,
   itail |-> itotal - 1,
   fctable_size |-> CeilDiv(nclusttotal, BITS_PER_BLOCK),
   fctable_pos |-> 1,
   dzone_total |-> nclusttotal,
   dzone_free |-> nclusttotal - 1,
   dzone_retriev |-> [cache_idx |-> DZONE_CACHE_SIZE, cache |-> EmptyCache],
   dzone_insert |-> [cache_idx |-> 0, cache |-> EmptyCache]]

fillInINT(itotal, uid, gid) ==
  [node \in 0..(itotal - 1) |->
     IF node = 0
     THEN [mode |-> INODE_PERM_ALL + INODE_DIR, refcount |-> 2, owner |-> uid,
           group |-> gid, size |-> DPC, clucount |-> 1,
           vD1 |-> time, vD2 |-> time,
           d |-> [FreeRefs EXCEPT ![0] = 0],
           i1 |-> NULL_CLUSTER, i2 |-> NULL_CLUSTER]
     ELSE [mode |-> INODE_FREE, refcount |-> 0, owner |-> 0, group |-> 0,
           size |-> 0, clucount |-> 0,
           vD1 |-> IF node = itotal - 1 THEN node - 1
                   ELSE IF node = 1 THEN NULL_INODE ELSE node - 1,
           vD2 |-> IF node = itotal - 1 THEN NULL_INODE ELSE node + 1,
           d |-> FreeRefs, i1 |-> NULL_CLUSTER, i2 |-> NULL_CLUSTER]]

fillInCIT(nclusttotal) ==
  [ref \in 0..(nclusttotal - 1) |-> IF ref = 0 THEN 0 ELSE NULL_INODE]

\* the byte the formatter leaves at (blk, byteOff): 0x7F in the first byte,
\* then one bit set for every cluster 1 .. dzone_total - 1
fillInByte(nclusttotal, blk, byteOff) ==
  LET base == (BLOCK_SIZE * blk + byteOff) * 8
      bits == {b \in 0..7 : /\ base + b >= 1
                            /\ \/ base + b < nclusttotal
                               \/ (blk = 0 /\ byteOff = 0)}
      RECURSIVE Sum(_)
      Sum(S) == IF S = {} THEN 0
                ELSE LET b == CHOOSE x \in S : TRUE
                     IN  Mask(b) + Sum(S \ {b})
  IN  Sum(bits)

fillInBitMapT(nclusttotal) ==
  [blk \in 0..(CeilDiv(nclusttotal, BITS_PER_BLOCK) - 1) |->
     [byteOff \in 0..(BLOCK_SIZE - 1) |-> fillInByte(nclusttotal, blk, byteOff)]]

\* the characters names are made of, by their codes: '.', '/', 'a' (the
\* letters after 'a' are CharA + 1, CharA + 2)
DOT == 46
SLASH == 47
CharA == 97

\* the field name of a directory entry: MAX_NAME + 1 characters
ZeroName == [k \in 0..MAX_NAME |-> 0]

\* strncpy (name, str, MAX_NAME + 1): the string and NUL up to the end
Str(str) == [k \in 0..MAX_NAME |-> IF k < Len(str) THEN str[k + 1] ELSE 0]

\* the string a field name holds: its characters before the first NUL
RECURSIVE CStrFrom(_, _)
CStrFrom(name, k) ==
  IF k > MAX_NAME \/ name[k] = 0 THEN <<>>
  ELSE <<name[k]>> \o CStrFrom(name, k + 1)

CStr(name) == CStrFrom(name, 0)

\* a directory entry
DirEntry(name, nInode) == [name |-> name, nInode |-> nInode]

CleanEntry == DirEntry(ZeroName, NULL_INODE)

\* contents of a cluster: directory entries, references or plain data
DirClust(de) == [kind |-> "dir", de |-> de, ref |-> <<>>]

RefClust(ref) == [kind |-> "ref", de |-> <<>>, ref |-> ref]

RawClust == [kind |-> "raw", de |-> <<>>, ref |-> <<>>]

fillInRootDir ==
  DirClust([i \in 0..(DPC - 1) |->
              IF i = 0 THEN DirEntry(Str(<<DOT>>), 0)
              ELSE IF i = 1 THEN DirEntry(Str(<<DOT, DOT>>), 0)
              ELSE CleanEntry])

fillInDZone(nclusttotal) ==
  [c \in 0..(nclusttotal - 1) |-> IF c = 0 THEN fillInRootDir ELSE RawClust]

\* the slots of sofs_basicoper hold no cluster after start-up
NoSlot == [n |-> -1, ref |-> <<>>]

mkfs(itotal, nclusttotal, uid, gid) ==
  /\ sb = fillInSuperBlock(itotal, nclusttotal)
  /\ itable = fillInINT(itotal, uid, gid)
  /\ ctinmt = fillInCIT(nclusttotal)
  /\ bmapt = fillInBitMapT(nclusttotal)
  /\ dzone = fillInDZone(nclusttotal)
  /\ sirc = NoSlot
  /\ drc = NoSlot
  /\ proc = [uid |-> uid, gid |-> gid]
  /\ nops = 0
  /\ ret = [op |-> "mkfs", err |-> OK, out |-> 0, arg |-> <<>>, allok |-> TRUE]

(* ------------------------------------------------------------------ *)
(* Quick consistency checks (sofs_basicconsist).                       *)
(* ------------------------------------------------------------------ *)
LegalType(mode) == TypeOf(mode) \in {INODE_DIR, INODE_FILE, INODE_SYMLINK}

\* an inode in use: the free bit is clear and the type is legal
soQCheckInodeIU(s, inode) ==
  IF ~HasBit(inode.mode, INODE_FREE) /\ LegalType(inode.mode)
  THEN OK ELSE "EIUININVAL"

\* a free inode in the dirty state: the free bit is set
soQCheckFDInode(s, inode) ==
  IF HasBit(inode.mode, INODE_FREE) THEN OK ELSE "EFDININVAL"

\* the superblock: list ends and counters within the tables
soQCheckSuperBlock(s) ==
  IF /\ s.sb.ifree <= s.sb.itotal
     /\ s.sb.dzone_free <= s.sb.dzone_total
  THEN OK ELSE "ESBISINVAL"

(* ------------------------------------------------------------------ *)
(* Inode allocator (sofs_ifuncs_1).                                    *)
(* ------------------------------------------------------------------ *)
\* a variant that keeps the flags the inode carried while it was free
soAllocInodeFill_keepFlags(inode, type, uid, gid) ==
  [inode EXCEPT !.mode = SetBit(@, type), !.refcount = 0, !.owner = uid,
                !.group = gid, !.size = 0, !.clucount = 0, !.d = FreeRefs,
                !.i1 = NULL_CLUSTER, !.i2 = NULL_CLUSTER,
                !.vD1 = time, !.vD2 = time]

soAllocInodeFill(inode, type, uid, gid) ==
  [inode EXCEPT !.mode = type, !.refcount = 0, !.owner = uid, !.group = gid,
                !.size = 0, !.clucount = 0, !.d = FreeRefs,
                !.i1 = NULL_CLUSTER, !.i2 = NULL_CLUSTER,
                !.vD1 = time, !.vD2 = time]

\* a variant that leaves the new head's prev as it was
soAllocInodeUnlink_keepPrev(it, next) == it

\* the inode table after the head of the list was taken: the inode that
\* follows becomes the head and loses its prev
soAllocInodeUnlink(it, next) == [it EXCEPT ![next].vD1 = NULL_INODE]

soAllocInode(s, type, uid, gid) ==
  IF type \notin {INODE_DIR, INODE_FILE, INODE_SYMLINK}
  THEN Res(s, "EINVAL", NULL_INODE)
  ELSE IF s.sb.ifree = 0 THEN Res(s, "ENOSPC", NULL_INODE)
  ELSE IF soQCheckSuperBlock(s) # OK
  THEN Res(s, soQCheckSuperBlock(s), NULL_INODE)
  ELSE IF s.sb.ihead >= s.sb.itotal THEN Res(s, "EINVAL", s.sb.ihead)
  ELSE
    LET n == s.sb.ihead
        next == s.itable[n].vD2
        it1 == [s.itable EXCEPT ![n] = soAllocInodeFill(@, type, uid, gid)]
    IN  IF s.sb.ifree = 1
        THEN Res([s EXCEPT !.itable = it1,
                           !.sb.ihead = NULL_INODE, !.sb.itail = NULL_INODE,
                           !.sb.ifree = @ - 1], OK, n)
        ELSE IF next >= s.sb.itotal
        THEN Res([s EXCEPT !.itable = it1, !.sb.ihead = next], "EINVAL", n)
        ELSE Res([s EXCEPT !.itable = soAllocInodeUnlink(it1, next),
                           !.sb.ihead = next,
                           !.sb.ifree = @ - 1], OK, n)

\* the inode table after inode n was appended behind the tail
soFreeInodeLink(it, tail, n) == [it EXCEPT ![tail].vD2 = n]

\* the root is taken for any other inode
soFreeInodeIsRoot_never(nInode) == FALSE

\* the inode is the root, which is never freed
soFreeInodeIsRoot(nInode) == nInode = 0

soFreeInode(s, nInode) ==
  IF soFreeInodeIsRoot(nInode) THEN Res(s, "EINVAL", 0)
  ELSE IF nInode >= s.sb.itotal THEN Res(s, "EINVAL", 0)
  ELSE IF soQCheckInodeIU(s, s.itable[nInode]) # OK
  THEN Res(s, soQCheckInodeIU(s, s.itable[nInode]), 0)
  ELSE IF s.sb.ifree = 0
  THEN Res([s EXCEPT !.itable[nInode].mode = SetBit(@, INODE_FREE),
                     !.itable[nInode].vD1 = NULL_INODE,
                     !.itable[nInode].vD2 = NULL_INODE,
                     !.sb.ihead = nInode, !.sb.itail = nInode,
                     !.sb.ifree = @ + 1], OK, 0)
  ELSE
    LET it1 == [s.itable EXCEPT ![nInode].vD1 = s.sb.itail,
                                ![nInode].vD2 = NULL_INODE,
                                ![nInode].owner = 0,
                                ![nInode].group = 0,
                                ![nInode].mode = SetBit(@, INODE_FREE)]
    IN  IF s.sb.itail >= s.sb.itotal
        THEN Res([s EXCEPT !.itable = it1], "EINVAL", 0)
        ELSE Res([s EXCEPT !.itable = soFreeInodeLink(it1, s.sb.itail, nInode),
                           !.sb.itail = nInode,
                           !.sb.ifree = @ + 1], OK, 0)


(* ------------------------------------------------------------------ *)
(* Data-cluster allocator (sofs_ifuncs_1).                             *)
(* ------------------------------------------------------------------ *)
\* the references waiting in the retrieval cache: positions cache_idx ..
RetrievRefs(s) ==
  {s.sb.dzone_retriev.cache[i] :
     i \in {j \in 0..(DZONE_CACHE_SIZE - 1) : j >= s.sb.dzone_retriev.cache_idx}}

\* the references held by the insertion cache: positions below cache_idx
InsertRefs(s) ==
  {s.sb.dzone_insert.cache[i] :
     i \in {j \in 0..(DZONE_CACHE_SIZE - 1) : j < s.sb.dzone_insert.cache_idx}}

\* the data zone metadata of the superblock
soQCheckDZ(s) ==
  IF /\ s.sb.dzone_free <= s.sb.dzone_total
     /\ s.sb.dzone_retriev.cache_idx <= DZONE_CACHE_SIZE
     /\ s.sb.dzone_insert.cache_idx <= DZONE_CACHE_SIZE
     /\ s.sb.fctable_pos < s.sb.dzone_total
  THEN OK ELSE "ESBDZINVAL"

\* a status check that reports every data cluster as allocated
soQCheckStatDC_allocated(s, nClust) == "ALLOC_CLT"

\* the allocation status of a data cluster: it is free when its bit is set
\* in the bitmap table or when either cache holds its reference
soQCheckStatDC(s, nClust) ==
  IF \/ BMapBit(s.bmapt, nClust)
     \/ nClust \in RetrievRefs(s)
     \/ nClust \in InsertRefs(s)
  THEN "FREE_CLT" ELSE "ALLOC_CLT"

\* soLoadBlockBMapT: a block beyond the table is refused
soLoadBlockBMapT(s, nBlk) == IF nBlk >= s.sb.fctable_size THEN "EINVAL" ELSE OK

\* one step of the loop of soDeplete: position n of the insertion cache
soDepleteStep(s, n) ==
  LET c == soConvertRefBMapT(s.sb.dzone_insert.cache[n])
  IN  [s EXCEPT !.bmapt[c.nBlk][c.byteOff] = SetBit(@, Mask(c.bitOff)),
                !.sb.dzone_insert.cache[n] = NULL_CLUSTER]

RECURSIVE soDepleteLoop(_, _)
soDepleteLoop(s, n) ==
  IF n >= s.sb.dzone_insert.cache_idx THEN Res(s, OK, 0)
  ELSE IF s.sb.dzone_insert.cache[n] >= s.sb.dzone_total
       \/ soLoadBlockBMapT(s, soConvertRefBMapT(s.sb.dzone_insert.cache[n]).nBlk) # OK
  THEN Res(s, "EINVAL", 0)
  ELSE soDepleteLoop(soDepleteStep(s, n), n + 1)

soDeplete(s) ==
  The({ IF r.err # OK THEN r
        ELSE Res([r.st EXCEPT !.sb.dzone_insert.cache_idx = 0], soQCheckDZ(r.st), 0)
      : r \in {soDepleteLoop(s, 0)} })

soFreeDataCluster(s, nClust) ==
  IF soQCheckDZ(s) # OK THEN Res(s, soQCheckDZ(s), 0)
  ELSE IF nClust > s.sb.dzone_total - 1 \/ nClust <= 0 THEN Res(s, "EINVAL", 0)
  ELSE IF soQCheckSuperBlock(s) # OK THEN Res(s, soQCheckSuperBlock(s), 0)
  ELSE IF soQCheckStatDC(s, nClust) = "FREE_CLT" THEN Res(s, "EDCNALINVAL", 0)
  ELSE
    The({ IF d.err # OK THEN d
          ELSE Res([d.st EXCEPT
                      !.sb.dzone_insert.cache[d.st.sb.dzone_insert.cache_idx] = nClust,
                      !.sb.dzone_insert.cache_idx = @ + 1,
                      !.sb.dzone_free = @ + 1], OK, 0)
        : d \in {IF s.sb.dzone_insert.cache_idx = DZONE_CACHE_SIZE
                 THEN soDeplete(s) ELSE Res(s, OK, 0)} })

\* the state of a scan of soReplenish
Scan(s, pos, n) == [st |-> s, pos |-> pos, n |-> n, err |-> OK]

\* the body shared by the two loops of soReplenish, the block nBlk loaded:
\* when the bit of pos within that block is set, pos is captured
soReplenishBody(s, pos, n, nBlk) ==
  LET c == soConvertRefBMapT(pos)
      mask == Mask(c.bitOff)
      npos == (pos + 1) % s.sb.dzone_total
  IN  IF HasBit(s.bmapt[nBlk][c.byteOff], mask)
      THEN Scan([s EXCEPT !.sb.dzone_retriev.cache[n] = pos,
                          !.bmapt[nBlk][c.byteOff] = ClearBit(@, mask)],
                npos, n + 1)
      ELSE Scan(s, npos, n)

\* the first loop: from fctable_pos until the cache is full or the scan is
\* back at fctable_pos
RECURSIVE soReplenishLoop1(_, _, _)
soReplenishLoop1(s, pos, n) ==
  The({ IF soLoadBlockBMapT(s, nBlk) # OK
        THEN [Scan(s, pos, n) EXCEPT !.err = soLoadBlockBMapT(s, nBlk)]
        ELSE The({ IF b.n < DZONE_CACHE_SIZE /\ b.pos # s.sb.fctable_pos
                   THEN soReplenishLoop1(b.st, b.pos, b.n)
                   ELSE b
                 : b \in {soReplenishBody(s, pos, n, nBlk)} })
      : nBlk \in {soConvertRefBMapT(pos).nBlk} })

\* the block the second loop loads for a reference
soReplenishBlock2(c) == c.byteOff

\* the second loop, after the insertion cache was depleted: until the cache
\* is full; k is the number of steps left of one turn of the table, after
\* which every bit the scan tests is 0 and the loop can only repeat itself
RECURSIVE soReplenishLoop2(_, _, _, _)
soReplenishLoop2(s, pos, n, k) ==
  IF k = 0 THEN [Scan(s, pos, n) EXCEPT !.err = "HANG"]
  ELSE
    The({ IF soLoadBlockBMapT(s, nBlk) # OK
          THEN [Scan(s, pos, n) EXCEPT !.err = soLoadBlockBMapT(s, nBlk)]
          ELSE The({ IF b.n < DZONE_CACHE_SIZE
                     THEN soReplenishLoop2(b.st, b.pos, b.n, k - 1)
                     ELSE b
                   : b \in {soReplenishBody(s, pos, n, nBlk)} })
        : nBlk \in {soReplenishBlock2(soConvertRefBMapT(pos))} })

soReplenish(s) ==
  The({ The({ IF l2.err # OK THEN Res(l2.st, l2.err, 0)
              ELSE Res([l2.st EXCEPT
                          !.sb.dzone_retriev.cache_idx = DZONE_CACHE_SIZE - nclustt,
                          !.sb.fctable_pos = l2.pos], OK, 0)
            : l2 \in {IF l1.err = OK /\ l1.n # DZONE_CACHE_SIZE
                      THEN soReplenishLoop2(soDeplete(l1.st).st, l1.pos, l1.n,
                                            s.sb.dzone_total)
                      ELSE l1} })
      : nclustt \in {Min(s.sb.dzone_free, DZONE_CACHE_SIZE)},
        l1 \in {soReplenishLoop1(s, s.sb.fctable_pos,
                                 DZONE_CACHE_SIZE - Min(s.sb.dzone_free, DZONE_CACHE_SIZE))} })


(* ------------------------------------------------------------------ *)
(* Reference-cluster slots of sofs_basicoper.                          *)
(* ------------------------------------------------------------------ *)
\* what a cluster that holds no references reads as: one word per position
RawWord == 0

\* a cluster read as a table of references
RefView(cl) ==
  IF cl.kind = "ref" THEN cl.ref ELSE [i \in 0..(RPC - 1) |-> RawWord]

NullRefs == [i \in 0..(RPC - 1) |-> NULL_CLUSTER]

\* soLoadDirRefClust: nothing is read when the slot already holds nClust
soLoadDirRefClust(s, nClust) ==
  IF nClust >= s.sb.dzone_total THEN Res(s, "EINVAL", 0)
  ELSE IF nClust = s.drc.n THEN Res(s, OK, 0)
  ELSE Res([s EXCEPT !.drc = [n |-> nClust, ref |-> RefView(s.dzone[nClust])]], OK, 0)

soStoreDirRefClust(s) == [s EXCEPT !.dzone[s.drc.n] = RefClust(s.drc.ref)]

\* soLoadSngIndRefClust: nothing is read when the slot already holds nClust
soLoadSngIndRefClust(s, nClust) ==
  IF nClust >= s.sb.dzone_total THEN Res(s, "EINVAL", 0)
  ELSE IF nClust = s.sirc.n THEN Res(s, OK, 0)
  ELSE Res([s EXCEPT !.sirc = [n |-> nClust, ref |-> RefView(s.dzone[nClust])]], OK, 0)

soStoreSngIndRefClust(s) == [s EXCEPT !.dzone[s.sirc.n] = RefClust(s.sirc.ref)]

(* ------------------------------------------------------------------ *)
(* Inode access (sofs_ifuncs_2).                                       *)
(* ------------------------------------------------------------------ *)
IUIN == 0
FDIN == 1

soReadInode(s, nInode, status) ==
  IF status # IUIN /\ status # FDIN THEN Res(s, "EINVAL", 0)
  ELSE IF nInode > s.sb.itable_size * IPB THEN Res(s, "EINVAL", 0)
  ELSE IF nInode >= s.sb.itotal THEN Res(s, "EINVAL", 0)
  ELSE
    LET cr == s.itable[nInode]
    IN  IF status = FDIN
        THEN IF ~HasBit(cr.mode, INODE_FREE) THEN Res(s, "EFDININVAL", 0)
             ELSE IF soQCheckFDInode(s, cr) # OK THEN Res(s, soQCheckFDInode(s, cr), 0)
             ELSE Res(s, OK, cr)
        ELSE IF ~(HasBit(cr.mode, INODE_SYMLINK) \/ HasBit(cr.mode, INODE_FILE)
                  \/ HasBit(cr.mode, INODE_DIR))
             THEN Res(s, "EIUININVAL", 0)
             ELSE IF soQCheckInodeIU(s, cr) # OK THEN Res(s, soQCheckInodeIU(s, cr), 0)
             ELSE Res([s EXCEPT !.itable[nInode].vD1 = time], OK,
                      [cr EXCEPT !.vD1 = time])

soWriteInode(s, inode, nInode, status) ==
  IF nInode >= s.sb.itotal THEN Res(s, "EINVAL", 0)
  ELSE IF status # IUIN /\ status # FDIN THEN Res(s, "EINVAL", 0)
  ELSE IF status = IUIN /\ soQCheckInodeIU(s, inode) # OK
  THEN Res(s, soQCheckInodeIU(s, inode), 0)
  ELSE IF status # IUIN /\ soQCheckFDInode(s, inode) # OK
  THEN Res(s, soQCheckFDInode(s, inode), 0)
  ELSE IF status = IUIN
  THEN Res([s EXCEPT !.itable[nInode] = [inode EXCEPT !.vD1 = time, !.vD2 = time]], OK, 0)
  ELSE Res([s EXCEPT !.itable[nInode] = inode], OK, 0)

(* ------------------------------------------------------------------ *)
(* Cluster-to-inode mapping (soHandleFileCluster.c).                   *)
(* ------------------------------------------------------------------ *)
soMapDCtoIn(s, nInode, nClust) ==
  IF nClust < 1 \/ nClust > s.sb.dzone_total - 1 THEN Res(s, "EINVAL", 0)
  ELSE IF nInode = 0 \/ nInode >= s.sb.itotal THEN Res(s, "EINVAL", 0)
  ELSE Res([s EXCEPT !.ctinmt[nClust] = nInode], OK, 0)

soUnmapDCtoIn(s, nInode, nClust) ==
  IF nClust < 1 \/ nClust > s.sb.dzone_total - 1 THEN Res(s, "EINVAL", 0)
  ELSE IF nInode = 0 \/ nInode >= s.sb.itotal THEN Res(s, "EINVAL", 0)
  ELSE IF s.ctinmt[nClust] # nInode THEN Res(s, "EDCMINVAL", 0)
  ELSE Res([s EXCEPT !.ctinmt[nClust] = NULL_INODE], OK, 0)


(* ------------------------------------------------------------------ *)
(* File clusters (soHandleFileCluster.c).                              *)
(* ------------------------------------------------------------------ *)
GET == 0
ALLOC == 1
FREE == 2
FREE_CLEAN == 3
CLEAN == 4

\* the result of a handler: the file system, the caller's copy of the inode,
\* the status and the value stored through p_outVal
HRes(s, ino, e, o) == [st |-> s, ino |-> ino, err |-> e, out |-> o]

AllNull(ref) == \A i \in DOMAIN ref : ref[i] = NULL_CLUSTER

RECURSIVE soAllocDataCluster(_)

soHandleDirect(s, nInode, ino, clustInd, op) ==
  LET ref == ino.d[clustInd]
  IN
  IF op = GET THEN HRes(s, ino, OK, ref)
  ELSE IF op = ALLOC THEN
    IF ref # NULL_CLUSTER THEN HRes(s, ino, "EDCARDYIL", NULL_CLUSTER)
    ELSE
      The({ LET ino1 == [ino EXCEPT !.d[clustInd] = a.out, !.clucount = @ + 1]
                m == soMapDCtoIn(a.st, nInode, a.out)
            IN  IF a.err # OK THEN HRes(a.st, ino, a.err, NULL_CLUSTER)
                ELSE HRes(m.st, ino1, m.err, a.out)
          : a \in {soAllocDataCluster(s)} })
  ELSE IF op = FREE \/ op = FREE_CLEAN THEN
    IF ref = NULL_CLUSTER THEN HRes(s, ino, "EDCNOTIL", NULL_CLUSTER)
    ELSE
      The({ LET u == soUnmapDCtoIn(f.st, nInode, ref)
            IN  IF f.err # OK \/ op = FREE THEN HRes(f.st, ino, f.err, NULL_CLUSTER)
                ELSE IF u.err # OK THEN HRes(u.st, ino, u.err, NULL_CLUSTER)
                ELSE HRes(u.st, [ino EXCEPT !.d[clustInd] = NULL_CLUSTER,
                                            !.clucount = @ - 1], OK, NULL_CLUSTER)
          : f \in {soFreeDataCluster(s, ref)} })
  ELSE IF op = CLEAN THEN
    IF ref = NULL_CLUSTER THEN HRes(s, ino, "EDCNOTIL", NULL_CLUSTER)
    ELSE
      LET u == soUnmapDCtoIn(s, nInode, ref)
      IN  IF u.err # OK THEN HRes(u.st, ino, u.err, NULL_CLUSTER)
          ELSE HRes(u.st, [ino EXCEPT !.d[clustInd] = NULL_CLUSTER,
                                      !.clucount = @ - 1], OK, NULL_CLUSTER)
  ELSE HRes(s, ino, OK, NULL_CLUSTER)

\* ALLOC through i1, once the cluster of references i1 exists: s and ino are
\* the state and the inode after i1 was provided, iflag tells it is new
soHandleSIndirectAlloc(s, nInode, ino, k, iflag) ==
  LET l == soLoadDirRefClust(s, ino.i1)
      s1 == IF iflag THEN [l.st EXCEPT !.drc.ref = NullRefs] ELSE l.st
      ino1 == [ino EXCEPT !.clucount = @ + 1]
  IN  IF l.err # OK THEN HRes(l.st, ino, l.err, NULL_CLUSTER)
      ELSE IF s1.drc.ref[k] # NULL_CLUSTER THEN HRes(s1, ino, "EDCARDYIL", NULL_CLUSTER)
      ELSE
        The({ LET l2 == soLoadDirRefClust(a.st, ino.i1)
                  m == soMapDCtoIn([l2.st EXCEPT !.drc.ref[k] = a.out], nInode, a.out)
              IN  IF a.err # OK THEN HRes(a.st, ino, a.err, NULL_CLUSTER)
                  ELSE IF l2.err # OK THEN HRes(l2.st, ino, l2.err, NULL_CLUSTER)
                  ELSE IF m.err # OK THEN HRes(m.st, ino1, m.err, NULL_CLUSTER)
                  ELSE HRes(soStoreDirRefClust(m.st), ino1, OK, a.out)
            : a \in {soAllocDataCluster(soStoreDirRefClust(s1))} })

\* a collapse that leaves the emptied cluster of references attached to i1
soHandleSIndirectCollapse_kept(s, nInode, ino) ==
  HRes(s, ino, OK, NULL_CLUSTER)

\* the collapse of i1 once the last reference of its cluster was cleaned
soHandleSIndirectCollapse(s, nInode, ino) ==
  LET u == soUnmapDCtoIn(s, nInode, ino.i1)
  IN  IF u.err # OK THEN HRes(u.st, ino, u.err, NULL_CLUSTER)
      ELSE
        The({ IF f.err # OK THEN HRes(f.st, ino, f.err, NULL_CLUSTER)
              ELSE HRes(f.st, [ino EXCEPT !.i1 = NULL_CLUSTER, !.clucount = @ - 1],
                        OK, NULL_CLUSTER)
            : f \in {soFreeDataCluster(u.st, ino.i1)} })

soHandleSIndirect(s, nInode, ino, clustInd, op) ==
  LET k == clustInd - N_DIRECT
  IN
  IF op = GET THEN
    IF ino.i1 = NULL_CLUSTER THEN HRes(s, ino, OK, NULL_CLUSTER)
    ELSE LET l == soLoadDirRefClust(s, ino.i1)
         IN  IF l.err # OK THEN HRes(l.st, ino, l.err, NULL_CLUSTER)
             ELSE HRes(l.st, ino, OK, l.st.drc.ref[k])
  ELSE IF op = ALLOC THEN
    \* i1 is provided first: p is the state and the inode once it exists
    The({ IF p.err # OK THEN p
          ELSE soHandleSIndirectAlloc(p.st, nInode, p.ino, k, ino.i1 = NULL_CLUSTER)
        : p \in {IF ino.i1 # NULL_CLUSTER THEN HRes(s, ino, OK, ino.i1)
                 ELSE The({ LET ino1 == [ino EXCEPT !.i1 = a.out]
                                m == soMapDCtoIn(a.st, nInode, a.out)
                            IN  IF a.err # OK THEN HRes(a.st, ino, a.err, NULL_CLUSTER)
                                ELSE IF m.err # OK
                                THEN HRes(m.st, ino1, m.err, NULL_CLUSTER)
                                ELSE HRes(m.st, [ino1 EXCEPT !.clucount = @ + 1],
                                          OK, a.out)
                          : a \in {soAllocDataCluster(s)} })} })
  ELSE IF op \in {FREE, FREE_CLEAN, CLEAN} THEN
    IF ino.i1 = NULL_CLUSTER THEN HRes(s, ino, "EDCNOTIL", NULL_CLUSTER)
    ELSE
      LET l == soLoadDirRefClust(s, ino.i1)
          ref == l.st.drc.ref[k]
          ino1 == [ino EXCEPT !.clucount = @ - 1]
      IN  IF l.err # OK THEN HRes(l.st, ino, l.err, NULL_CLUSTER)
          ELSE IF ref = NULL_CLUSTER THEN HRes(l.st, ino, "EDCNOTIL", NULL_CLUSTER)
          ELSE
            The({ LET u == soUnmapDCtoIn(f.st, nInode, ref)
                      s1 == soStoreDirRefClust([u.st EXCEPT !.drc.ref[k] = NULL_CLUSTER])
                  IN  IF f.err # OK THEN HRes(f.st, ino, f.err, NULL_CLUSTER)
                      ELSE IF op = FREE THEN HRes(f.st, ino, OK, NULL_CLUSTER)
                      ELSE IF u.err # OK THEN HRes(u.st, ino, u.err, NULL_CLUSTER)
                      ELSE IF AllNull(s1.drc.ref)
                      THEN soHandleSIndirectCollapse(s1, nInode, ino1)
                      ELSE HRes(s1, ino1, OK, NULL_CLUSTER)
                : f \in {IF op # CLEAN THEN soFreeDataCluster(l.st, ref)
                         ELSE Res(l.st, OK, 0)} })
  ELSE HRes(s, ino, "EINVAL", NULL_CLUSTER)


\* ALLOC through i2, once the cluster of references refSI exists: s and ino
\* are the state and the inode after it was provided, iflagD tells it is new
soHandleDIndirectAllocD(s, nInode, ino, refSI, kD, iflagD) ==
  LET l == soLoadDirRefClust(s, refSI)
      s1 == soStoreDirRefClust(IF iflagD THEN [l.st EXCEPT !.drc.ref = NullRefs]
                               ELSE l.st)
      ino1 == [ino EXCEPT !.clucount = @ + 1]
  IN  IF l.err # OK THEN HRes(l.st, ino, l.err, NULL_CLUSTER)
      ELSE IF s1.drc.ref[kD] # NULL_CLUSTER THEN HRes(s1, ino, "EDCARDYIL", NULL_CLUSTER)
      ELSE
        The({ LET l2 == soLoadDirRefClust(a.st, refSI)
                  m == soMapDCtoIn(soStoreDirRefClust([l2.st EXCEPT !.drc.ref[kD] = a.out]),
                                   nInode, a.out)
              IN  IF a.err # OK THEN HRes(a.st, ino, a.err, NULL_CLUSTER)
                  ELSE IF l2.err # OK THEN HRes(l2.st, ino, l2.err, NULL_CLUSTER)
                  ELSE HRes(m.st, ino1, m.err, a.out)
            : a \in {soAllocDataCluster(s1)} })

\* ALLOC through i2, once the cluster i2 exists: iflagSI tells it is new
soHandleDIndirectAllocSI(s, nInode, ino, kSI, kD, iflagSI) ==
  LET l == soLoadSngIndRefClust(s, ino.i2)
      s1 == soStoreSngIndRefClust(IF iflagSI THEN [l.st EXCEPT !.sirc.ref = NullRefs]
                                  ELSE l.st)
      ino1 == [ino EXCEPT !.clucount = @ + 1]
  IN  IF l.err # OK THEN HRes(l.st, ino, l.err, NULL_CLUSTER)
      ELSE
        \* the cluster of references at kSI is provided first
        The({ IF h.err # OK THEN h
              ELSE soHandleDIndirectAllocD(h.st, nInode, h.ino, h.out, kD,
                                           s1.sirc.ref[kSI] = NULL_CLUSTER)
            : h \in {IF s1.sirc.ref[kSI] # NULL_CLUSTER
                     THEN HRes(s1, ino, OK, s1.sirc.ref[kSI])
                     ELSE The({ LET l2 == soLoadSngIndRefClust(a.st, ino.i2)
                                    m == soMapDCtoIn(
                                           soStoreSngIndRefClust(
                                             [l2.st EXCEPT !.sirc.ref[kSI] = a.out]),
                                           nInode, a.out)
                                IN  IF a.err # OK
                                    THEN HRes(a.st, ino, a.err, NULL_CLUSTER)
                                    ELSE IF l2.err # OK
                                    THEN HRes(l2.st, ino, l2.err, NULL_CLUSTER)
                                    ELSE IF m.err # OK
                                    THEN HRes(m.st, ino1, m.err, NULL_CLUSTER)
                                    ELSE HRes(m.st, ino1, OK, a.out)
                              : a \in {soAllocDataCluster(s1)} })} })

\* the collapse of i2 once its cluster holds no reference
soHandleDIndirectCollapseSI(s, nInode, ino) ==
  LET l == soLoadSngIndRefClust(s, ino.i2)
  IN  IF l.err # OK THEN HRes(l.st, ino, l.err, NULL_CLUSTER)
      ELSE IF ~AllNull(l.st.sirc.ref) THEN HRes(l.st, ino, OK, NULL_CLUSTER)
      ELSE
        The({ LET u == soUnmapDCtoIn(f.st, nInode, ino.i2)
              IN  IF f.err # OK THEN HRes(f.st, ino, f.err, NULL_CLUSTER)
                  ELSE IF u.err # OK THEN HRes(u.st, ino, u.err, NULL_CLUSTER)
                  ELSE HRes(u.st, [ino EXCEPT !.i2 = NULL_CLUSTER, !.clucount = @ - 1],
                            OK, NULL_CLUSTER)
            : f \in {soFreeDataCluster(l.st, ino.i2)} })

\* the collapse of the cluster of references at kSI once it holds no reference
soHandleDIndirectCollapseD(s, nInode, ino, kSI) ==
  The({ LET u == soUnmapDCtoIn(f.st, nInode, s.sirc.ref[kSI])
        IN  IF f.err # OK THEN HRes(f.st, ino, f.err, NULL_CLUSTER)
            ELSE IF u.err # OK THEN HRes(u.st, ino, u.err, NULL_CLUSTER)
            ELSE soHandleDIndirectCollapseSI(
                   soStoreSngIndRefClust([u.st EXCEPT !.sirc.ref[kSI] = NULL_CLUSTER]),
                   nInode, [ino EXCEPT !.clucount = @ - 1])
      : f \in {soFreeDataCluster(s, s.sirc.ref[kSI])} })

soHandleDIndirect(s, nInode, ino, clustInd, op) ==
  LET kSI == (clustInd - N_DIRECT - RPC) \div RPC
      kD == clustInd - N_DIRECT - (RPC * (kSI + 1))
  IN
  IF op = ALLOC THEN
    \* i2 is provided first: p is the state and the inode once it exists
    The({ IF p.err # OK THEN p
          ELSE soHandleDIndirectAllocSI(p.st, nInode, p.ino, kSI, kD,
                                        ino.i2 = NULL_CLUSTER)
        : p \in {IF ino.i2 # NULL_CLUSTER THEN HRes(s, ino, OK, ino.i2)
                 ELSE The({ LET ino1 == [ino EXCEPT !.i2 = a.out, !.clucount = @ + 1]
                                m == soMapDCtoIn(a.st, nInode, a.out)
                            IN  IF a.err # OK THEN HRes(a.st, ino, a.err, NULL_CLUSTER)
                                ELSE HRes(m.st, ino1, m.err, NULL_CLUSTER)
                          : a \in {soAllocDataCluster(s)} })} })
  ELSE IF ino.i2 = NULL_CLUSTER
  THEN HRes(s, ino, IF op = GET THEN OK ELSE "EDCNOTIL", NULL_CLUSTER)
  ELSE
    LET l == soLoadSngIndRefClust(s, ino.i2)
        refSI == l.st.sirc.ref[kSI]
        ld == soLoadDirRefClust(l.st, refSI)
        ref == ld.st.drc.ref[kD]
        ino1 == [ino EXCEPT !.clucount = @ - 1]
    IN  IF l.err # OK THEN HRes(l.st, ino, l.err, NULL_CLUSTER)
        ELSE IF refSI = NULL_CLUSTER
        THEN HRes(l.st, ino, IF op = GET THEN OK ELSE "EDCNOTIL", NULL_CLUSTER)
        ELSE IF ld.err # OK THEN HRes(ld.st, ino, ld.err, NULL_CLUSTER)
        ELSE IF op = GET THEN HRes(ld.st, ino, OK, ref)
        ELSE IF ref = NULL_CLUSTER THEN HRes(ld.st, ino, "EDCNOTIL", NULL_CLUSTER)
        ELSE
          The({ LET u == soUnmapDCtoIn(f.st, nInode, ref)
                    s1 == soStoreDirRefClust([u.st EXCEPT !.drc.ref[kD] = NULL_CLUSTER])
                IN  IF f.err # OK THEN HRes(f.st, ino, f.err, NULL_CLUSTER)
                    ELSE IF ~(op = CLEAN \/ op = FREE_CLEAN)
                    THEN HRes(f.st, ino, OK, NULL_CLUSTER)
                    ELSE IF u.err # OK THEN HRes(u.st, ino, u.err, NULL_CLUSTER)
                    ELSE IF AllNull(s1.drc.ref)
                    THEN soHandleDIndirectCollapseD(s1, nInode, ino1, kSI)
                    ELSE soHandleDIndirectCollapseSI(s1, nInode, ino1)
              : f \in {IF op = FREE \/ op = FREE_CLEAN
                       THEN soFreeDataCluster(ld.st, ref)
                       ELSE Res(ld.st, OK, 0)} })

\* clusters a file can hold
MAX_FILE_CLUSTERS == N_DIRECT + RPC + RPC * RPC

\* the handler of the region of clustInd
soHandleRegion(s, nInode, ino, clustInd, op) ==
  IF clustInd < N_DIRECT THEN soHandleDirect(s, nInode, ino, clustInd, op)
  ELSE IF clustInd < N_DIRECT + RPC THEN soHandleSIndirect(s, nInode, ino, clustInd, op)
  ELSE soHandleDIndirect(s, nInode, ino, clustInd, op)

soHandleFileCluster(s, nInode, clustInd, op) ==
  IF nInode > s.sb.itotal THEN Res(s, "EINVAL", NULL_CLUSTER)
  ELSE IF op \notin {GET, ALLOC, FREE, FREE_CLEAN, CLEAN} THEN Res(s, "EINVAL", NULL_CLUSTER)
  ELSE
    LET inode_status == IF op = CLEAN THEN 1 ELSE 0
        rd == soReadInode(s, nInode, inode_status)
        chk == IF op # CLEAN THEN soQCheckInodeIU(rd.st, rd.out)
               ELSE soQCheckFDInode(rd.st, rd.out)
    IN  IF rd.err # OK THEN Res(rd.st, rd.err, NULL_CLUSTER)
        ELSE IF chk # OK THEN Res(rd.st, chk, NULL_CLUSTER)
        ELSE
          The({ LET w == soWriteInode(h.st, h.ino, nInode, inode_status)
                IN  IF op # GET /\ h.err = OK THEN Res(w.st, w.err, h.out)
                    ELSE Res(h.st, h.err, h.out)
              : h \in {soHandleRegion(rd.st, nInode, rd.out, clustInd, op)} })


(* ------------------------------------------------------------------ *)
(* Allocation of a data cluster (sofs_ifuncs_1).                       *)
(* ------------------------------------------------------------------ *)
\* a table of references with every reference to nClust cleared
CleanRef(ref, nClust) ==
  [i \in DOMAIN ref |-> IF ref[i] = nClust THEN NULL_CLUSTER ELSE ref[i]]

\* the clusters of references of an inode, as the device holds them
RefClustersOf(s, ino) ==
  LET top == {c \in {ino.i1, ino.i2} : c < s.sb.dzone_total}
      sub == IF ino.i2 < s.sb.dzone_total
             THEN {c \in Range(RefView(s.dzone[ino.i2])) : c < s.sb.dzone_total}
             ELSE {}
  IN  {c \in top \cup sub : s.dzone[c].kind = "ref"}

\* soCleanDataCluster: the reference to nClust leaves the reference lists of
\* the inode that owned it and the mapping of nClust is cleared
soCleanDataCluster(s, nInode, nClust) ==
  IF nInode >= s.sb.itotal \/ nClust >= s.sb.dzone_total THEN Res(s, "EINVAL", 0)
  ELSE
    LET ino == s.itable[nInode]
        rcs == RefClustersOf(s, ino)
        ino1 == [ino EXCEPT !.d = CleanRef(@, nClust),
                            !.i1 = IF @ = nClust THEN NULL_CLUSTER ELSE @,
                            !.i2 = IF @ = nClust THEN NULL_CLUSTER ELSE @]
        dz1 == [c \in DOMAIN s.dzone |->
                  IF c \in rcs THEN RefClust(CleanRef(s.dzone[c].ref, nClust))
                  ELSE s.dzone[c]]
        found == ino1 # ino \/ dz1 # s.dzone
        ino2 == IF found THEN [ino1 EXCEPT !.clucount = @ - 1] ELSE ino1
    IN  Res([s EXCEPT !.itable[nInode] = ino2,
                      !.dzone = dz1,
                      !.drc.ref = IF s.drc.n \in rcs THEN CleanRef(@, nClust) ELSE @,
                      !.sirc.ref = IF s.sirc.n \in rcs THEN CleanRef(@, nClust) ELSE @,
                      !.ctinmt[nClust] = NULL_INODE], OK, 0)

\* the retrieval of the reference at cache_idx, the cache holding one
soAllocDataClusterPop(s) ==
  LET idx == s.sb.dzone_retriev.cache_idx
      nClust == s.sb.dzone_retriev.cache[idx]
      cl == IF s.ctinmt[nClust] # NULL_INODE
            THEN soCleanDataCluster(s, s.ctinmt[nClust], nClust)
            ELSE Res(s, OK, 0)
  IN  IF nClust >= s.sb.dzone_total THEN Res(s, "EINVAL", nClust)
      ELSE IF cl.err # OK THEN Res(cl.st, cl.err, nClust)
      ELSE Res([cl.st EXCEPT !.sb.dzone_retriev.cache[idx] = NULL_CLUSTER,
                             !.sb.dzone_retriev.cache_idx = @ + 1,
                             !.sb.dzone_free = @ - 1], OK, nClust)

soAllocDataCluster(s) ==
  IF s.sb.dzone_free = 0 THEN Res(s, "ENOSPC", NULL_CLUSTER)
  ELSE IF soQCheckDZ(s) # OK THEN Res(s, soQCheckDZ(s), NULL_CLUSTER)
  ELSE
    The({ IF r.err # OK THEN Res(r.st, r.err, NULL_CLUSTER)
          ELSE soAllocDataClusterPop(r.st)
        : r \in {IF s.sb.dzone_retriev.cache_idx = DZONE_CACHE_SIZE
                 THEN soReplenish(s) ELSE Res(s, OK, 0)} })


(* ------------------------------------------------------------------ *)
(* All the clusters of a file (soHandleFileClusters.c).                *)
(* ------------------------------------------------------------------ *)
\* the loop over the references ref2 of one cluster under i2, from offset on
RECURSIVE soHandleFileClustersD(_, _, _, _, _, _)
soHandleFileClustersD(s, nInode, op, ref2, idx, offset) ==
  IF offset >= RPC THEN Res(s, OK, 0)
  ELSE
    The({ IF h.err # OK THEN Res(h.st, h.err, 0)
          ELSE soHandleFileClustersD(h.st, nInode, op, ref2, idx, offset + 1)
        : h \in {IF ref2[offset] # NULL_CLUSTER
                 THEN soHandleFileCluster(s, nInode,
                                          offset + (idx * RPC) + RPC + N_DIRECT, op)
                 ELSE Res(s, OK, 0)} })

\* the loop over the references ref1 of the cluster i2, from idx on; the
\* cluster of each is read through the single-indirect slot
RECURSIVE soHandleFileClustersSI(_, _, _, _, _, _)
soHandleFileClustersSI(s, nInode, op, ref1, idx, offset) ==
  IF idx >= RPC THEN Res(s, OK, 0)
  ELSE
    LET l == soLoadSngIndRefClust(s, ref1[idx])
    IN  The({ IF d.err # OK THEN Res(d.st, d.err, 0)
              ELSE soHandleFileClustersSI(d.st, nInode, op, ref1, idx + 1, 0)
            : d \in {IF ref1[idx] = NULL_CLUSTER THEN Res(s, OK, 0)
                     ELSE IF l.err # OK THEN l
                     ELSE soHandleFileClustersD(l.st, nInode, op, l.st.sirc.ref,
                                                idx, offset)} })

\* the loop over the references ref1 of the cluster i1, from idx on
RECURSIVE soHandleFileClustersI1(_, _, _, _, _)
soHandleFileClustersI1(s, nInode, op, ref1, idx) ==
  IF idx >= RPC THEN Res(s, OK, 0)
  ELSE
    The({ IF h.err # OK THEN Res(h.st, h.err, 0)
          ELSE soHandleFileClustersI1(h.st, nInode, op, ref1, idx + 1)
        : h \in {IF ref1[idx] # NULL_CLUSTER
                 THEN soHandleFileCluster(s, nInode, idx + N_DIRECT, op)
                 ELSE Res(s, OK, 0)} })

\* the loop over the direct references d read at entry, from clustInd on
RECURSIVE soHandleFileClustersDir(_, _, _, _, _)
soHandleFileClustersDir(s, nInode, op, d, clustInd) ==
  IF clustInd >= N_DIRECT THEN Res(s, OK, 0)
  ELSE
    The({ IF h.err # OK THEN Res(h.st, h.err, 0)
          ELSE soHandleFileClustersDir(h.st, nInode, op, d, clustInd + 1)
        : h \in {IF d[clustInd] # NULL_CLUSTER
                 THEN soHandleFileCluster(s, nInode, clustInd, op)
                 ELSE Res(s, OK, 0)} })

\* the part of soHandleFileClusters on the references under i2
soHandleFileClustersPart2(s, nInode, ino, clustIndIn, op) ==
  IF ino.i2 = NULL_CLUSTER THEN Res(s, OK, 0)
  ELSE
    LET idx == IF clustIndIn >= N_DIRECT + RPC
               THEN (clustIndIn - (N_DIRECT + RPC)) \div RPC ELSE 0
        offset == IF clustIndIn >= N_DIRECT + RPC
                  THEN (clustIndIn - (N_DIRECT + RPC)) % RPC ELSE 0
        l == soLoadSngIndRefClust(s, ino.i2)
    IN  IF l.err # OK THEN Res(l.st, l.err, 0)
        ELSE soHandleFileClustersSI(l.st, nInode, op, l.st.sirc.ref, idx, offset)

\* the part of soHandleFileClusters on the references under i1
soHandleFileClustersPart1(s, nInode, ino, clustIndIn, op) ==
  IF ~(ino.i1 # NULL_CLUSTER /\ clustIndIn < N_DIRECT + RPC) THEN Res(s, OK, 0)
  ELSE
    LET idx == IF clustIndIn >= N_DIRECT THEN clustIndIn - N_DIRECT ELSE 0
        l == soLoadSngIndRefClust(s, ino.i1)
    IN  IF l.err # OK THEN Res(l.st, l.err, 0)
        ELSE soHandleFileClustersI1(l.st, nInode, op, l.st.sirc.ref, idx)

soHandleFileClusters(s, nInode, clustIndIn, op) ==
  IF nInode >= s.sb.itotal THEN Res(s, "EINVAL", 0)
  ELSE IF op # FREE /\ op # FREE_CLEAN /\ op # CLEAN THEN Res(s, "EINVAL", 0)
  ELSE
    LET rd == soReadInode(s, nInode, IF op # CLEAN THEN IUIN ELSE FDIN)
    IN  IF rd.err # OK THEN Res(rd.st, rd.err, 0)
        ELSE IF clustIndIn >= MAX_FILE_CLUSTERS THEN Res(rd.st, "EINVAL", 0)
        ELSE
          The({ IF p2.err # OK THEN p2
                ELSE The({ IF p1.err # OK \/ clustIndIn >= N_DIRECT THEN p1
                           ELSE soHandleFileClustersDir(p1.st, nInode, op, rd.out.d,
                                                        clustIndIn)
                         : p1 \in {soHandleFileClustersPart1(p2.st, nInode, rd.out,
                                                             clustIndIn, op)} })
              : p2 \in {soHandleFileClustersPart2(rd.st, nInode, rd.out,
                                                  clustIndIn, op)} })

\* a variant that starts at the first cluster past the direct references
soCleanInode_skipDirect(s, nInode) ==
  IF nInode >= s.sb.itotal \/ nInode <= 0 THEN Res(s, "EINVAL", 0)
  ELSE The({ IF h.err # OK THEN h
             ELSE Res(h.st, soQCheckSuperBlock(h.st), 0)
           : h \in {soHandleFileClusters(s, nInode, N_DIRECT, CLEAN)} })

soCleanInode(s, nInode) ==
  IF nInode >= s.sb.itotal \/ nInode <= 0 THEN Res(s, "EINVAL", 0)
  ELSE The({ IF h.err # OK THEN h
             ELSE Res(h.st, soQCheckSuperBlock(h.st), 0)
           : h \in {soHandleFileClusters(s, nInode, 0, CLEAN)} })


(* ------------------------------------------------------------------ *)
(* Reading and writing one cluster of a file.                          *)
(* ------------------------------------------------------------------ *)
\* a buffer of BSLPC zero bytes
ZeroClust == [kind |-> "zero", de |-> <<>>, ref |-> <<>>]

\* a buffer of file data handed in by the caller
DataClust == [kind |-> "data", de |-> <<>>, ref |-> <<>>]

soWriteFileCluster(s, nInode, clustInd, buff) ==
  IF nInode >= s.sb.itotal \/ clustInd >= MAX_FILE_CLUSTERS THEN Res(s, "EINVAL", 0)
  ELSE IF s.itable[nInode].mode = INODE_FREE THEN Res(s, "EINVAL", 0)
  ELSE
    The({ IF g.err # OK THEN Res(g.st, g.err, 0)
          ELSE The({ IF a.err # OK THEN Res(a.st, a.err, 0)
                     ELSE Res([a.st EXCEPT !.dzone[a.out] = buff], OK, a.out)
                   : a \in {IF g.out = NULL_CLUSTER
                            THEN soHandleFileCluster(g.st, nInode, clustInd, ALLOC)
                            ELSE g} })
        : g \in {soHandleFileCluster(s, nInode, clustInd, GET)} })

\* what the test of nInode against the total number of inodes can come to:
\* it is made through the pointer to the superblock before the pointer is
\* set, so it passes, or fails, or the access faults
UninitOutcomes == {"pass", "EINVAL", "SIGSEGV"}

soReadFileCluster(s, nInode, clustInd, uninit) ==
  IF uninit # "pass" THEN Res(s, uninit, ZeroClust)
  ELSE IF clustInd >= MAX_FILE_CLUSTERS THEN Res(s, "EINVAL", ZeroClust)
  ELSE IF soQCheckInodeIU(s, s.itable[nInode - (nInode % IPB)]) # OK
  THEN Res(s, soQCheckInodeIU(s, s.itable[nInode - (nInode % IPB)]), ZeroClust)
  ELSE
    The({ IF g.err # OK THEN Res(g.st, g.err, ZeroClust)
          ELSE IF g.out = NULL_CLUSTER THEN Res(g.st, OK, ZeroClust)
          ELSE Res(g.st, OK, g.st.dzone[g.out])
        : g \in {soHandleFileCluster(s, nInode, clustInd, GET)} })

(* ------------------------------------------------------------------ *)
(* The inode allocator on a freshly formatted device.                  *)
(* ------------------------------------------------------------------ *)
\* blocks of the inode table of the devices explored
ITableBlocks == 2

InodeTypes == {INODE_DIR, INODE_FILE, INODE_SYMLINK}

\* operations explored on the inode allocator
MaxOpsInode == 9

Returned(op, arg, r) ==
  /\ ret' = [op |-> op, err |-> r.err, out |-> r.out, arg |-> arg,
             allok |-> ret.allok /\ r.err = OK]
  /\ nops' = nops + 1

\* a call of an operation: its result r is committed and reported
Perform(op, arg, r) == Commit(r.st) /\ Returned(op, arg, r) /\ UNCHANGED proc

AllocInode(type) ==
  /\ nops < MaxOpsInode
  /\ Perform("allocInode", <<type>>, soAllocInode(FS, type, proc.uid, proc.gid))

FreeInode(n) ==
  /\ nops < MaxOpsInode
  /\ Perform("freeInode", <<n>>, soFreeInode(FS, n))

InitInode == mkfs(IPB * ITableBlocks, 2, 1, 1)

NextInode ==
  \/ \E type \in InodeTypes : AllocInode(type)
  \/ \E n \in 0..(sb.itotal - 1) : FreeInode(n)

SpecInode == InitInode /\ [][NextInode]_vars

\* the inodes met walking next from ihead, at most k steps
RECURSIVE WalkNext(_, _, _)
WalkNext(it, n, k) ==
  IF k = 0 \/ n \notin DOMAIN it THEN <<>>
  ELSE <<n>> \o WalkNext(it, it[n].vD2, k - 1)

\* the inodes met walking prev from itail, at most k steps
RECURSIVE WalkPrev(_, _, _)
WalkPrev(it, n, k) ==
  IF k = 0 \/ n \notin DOMAIN it THEN <<>>
  ELSE <<n>> \o WalkPrev(it, it[n].vD1, k - 1)

FreeInodes == {n \in DOMAIN itable : HasBit(itable[n].mode, INODE_FREE)}

\* C1: after every successful allocInode or freeInode on a freshly formatted
\* device, an inode carries INODE_FREE exactly when the walk along next from
\* ihead meets it; the forward walk and the backward walk from itail each
\* visit exactly ifree inodes, all distinct; and ihead = itail = NULL_INODE
\* exactly when ifree = 0.
C1_FreeList ==
  (ret.err = OK) =>
    LET fwd == WalkNext(itable, sb.ihead, sb.itotal + 1)
        bwd == WalkPrev(itable, sb.itail, sb.itotal + 1)
    IN  /\ Range(fwd) = FreeInodes
        /\ Len(fwd) = sb.ifree
        /\ Cardinality(Range(fwd)) = sb.ifree
        /\ Len(bwd) = sb.ifree
        /\ Range(bwd) = FreeInodes
        /\ (sb.ifree = 0) <=> (sb.ihead = NULL_INODE /\ sb.itail = NULL_INODE)
        /\ (sb.ifree = 0) <=> (sb.ihead = NULL_INODE)
        /\ (sb.ifree = 0) <=> (sb.itail = NULL_INODE)

\* an inode freed into the empty list and a list rebuilt in another order
C1_Witness ==
  /\ ret.op = "freeInode" /\ ret.err = OK
  /\ sb.ifree = 2
  /\ sb.ihead = 3 /\ sb.itail = 1

\* the list running empty and refilling from empty
C1_WitnessEmpty ==
  /\ ret.op = "allocInode" /\ ret.err = OK /\ sb.ifree = 0

\* the inode a successful soAllocInode of a given type hands out
FreshInode(ino, type) ==
  /\ ino.mode = type
  /\ ino.refcount = 0 /\ ino.size = 0 /\ ino.clucount = 0
  /\ \A k \in DOMAIN ino.d : ino.d[k] = NULL_CLUSTER
  /\ ino.i1 = NULL_CLUSTER /\ ino.i2 = NULL_CLUSTER

\* C20: every allocInode of a legal type succeeds exactly when ifree >= 1;
\* it then returns the inode that was at ihead, in use with only the type
\* bit set, refcount, size and clucount 0 and every reference NULL_CLUSTER,
\* and takes one from ifree; with ifree = 0 it returns no-space and leaves
\* the superblock and the inode table as they were.
C20_AllocInode ==
  [][ret'.op = "allocInode" =>
       IF sb.ifree >= 1
       THEN /\ ret'.err = OK
            /\ ret'.out = sb.ihead
            /\ FreshInode(itable'[sb.ihead], ret'.arg[1])
            /\ sb'.ifree = sb.ifree - 1
       ELSE /\ ret'.err = "ENOSPC"
            /\ sb' = sb /\ itable' = itable]_vars

\* the last free inode allocated and one more call refused
C20_Witness ==
  /\ ret.op = "allocInode" /\ ret.err = "ENOSPC" /\ sb.ifree = 0

(* ------------------------------------------------------------------ *)
(* Access rights (soAccessGranted).                                    *)
(* ------------------------------------------------------------------ *)
R == 4
W == 2
X == 1

\* the permission bits of the three classes of a mode, each as R|W|X
UsrBits(mode) == (mode \div 64) % 8
GrpBits(mode) == (mode \div 8) % 8
OthBits(mode) == mode % 8

\* the table of inodes: the counters of the superblock within the table
soQCheckInT(s) == IF s.sb.ifree <= s.sb.itotal THEN OK ELSE "EINTINVAL"

\* the test made on one class: a single requested operation whose bit is
\* set in the class, or the bits of the class equal to the request
soAccessGrantedClass(bits, opRequested) ==
  \/ opRequested = R /\ HasBit(bits, R)
  \/ opRequested = W /\ HasBit(bits, W)
  \/ opRequested = X /\ HasBit(bits, X)
  \/ bits = opRequested

soAccessGranted(s, nInode, opRequested, uid, gid) ==
  IF opRequested = 0 \/ opRequested \notin 0..(R + W + X) THEN Res(s, "EINVAL", 0)
  ELSE IF nInode > s.sb.itotal - 1 THEN Res(s, "EINVAL", 0)
  ELSE IF soQCheckInT(s) # OK THEN Res(s, soQCheckInT(s), 0)
  ELSE
    LET rd == soReadInode(s, nInode, IUIN)
        inode == rd.st.itable[nInode]
    IN  IF rd.err # OK THEN Res(rd.st, rd.err, 0)
        ELSE IF soQCheckInodeIU(rd.st, rd.out) # OK
        THEN Res(rd.st, soQCheckInodeIU(rd.st, rd.out), 0)
        ELSE IF inode.owner # 0
        THEN IF \/ uid = inode.owner
                    /\ soAccessGrantedClass(UsrBits(inode.mode), opRequested)
                \/ gid = inode.group
                    /\ soAccessGrantedClass(GrpBits(inode.mode), opRequested)
                \/ soAccessGrantedClass(OthBits(inode.mode), opRequested)
             THEN Res(rd.st, OK, 0)
             ELSE Res(rd.st, "EACCES", 0)
        ELSE IF opRequested \in {R, W, R + W} THEN Res(rd.st, OK, 0)
        ELSE IF \/ HasBit(UsrBits(inode.mode), X)
                \/ HasBit(GrpBits(inode.mode), X)
                \/ HasBit(OthBits(inode.mode), X)
        THEN Res(rd.st, OK, 0)
        ELSE Res(rd.st, "EACCES", 0)

(* ------------------------------------------------------------------ *)
(* Access checks on a device holding one file.                         *)
(* ------------------------------------------------------------------ *)
\* the largest user and group identifier explored
MaxId == 2
\* checks made in a row
MaxOpsAccess == 1

\* a freshly formatted device as one value
Formatted(itotal, nclusttotal, uid, gid) ==
  [sb |-> fillInSuperBlock(itotal, nclusttotal),
   itable |-> fillInINT(itotal, uid, gid),
   ctinmt |-> fillInCIT(nclusttotal),
   bmapt |-> fillInBitMapT(nclusttotal),
   dzone |-> fillInDZone(nclusttotal),
   sirc |-> NoSlot, drc |-> NoSlot]

\* the variables hold the file system s
Holds(s) ==
  /\ sb = s.sb
  /\ itable = s.itable
  /\ ctinmt = s.ctinmt
  /\ bmapt = s.bmapt
  /\ dzone = s.dzone
  /\ sirc = s.sirc
  /\ drc = s.drc

\* a device formatted by user 1 on which a process owner/group created a
\* file, inode 1, and gave it the permissions perm; the calling process is
\* uid/gid
InitAccess ==
  \E owner \in 0..MaxId, group \in 1..MaxId, perm \in 0..INODE_PERM_ALL,
     uid \in 0..MaxId, gid \in 1..MaxId :
    /\ Holds([soAllocInode(Formatted(IPB, 2, 1, 1), INODE_FILE, owner, group).st
                EXCEPT !.itable[1].mode = INODE_FILE + perm])
    /\ proc = [uid |-> uid, gid |-> gid]
    /\ nops = 0
    /\ ret = [op |-> "mkfs", err |-> OK, out |-> 0, arg |-> <<>>, allok |-> TRUE]

AccessGranted(nInode, opRequested) ==
  /\ nops < MaxOpsAccess
  /\ Perform("accessGranted", <<nInode, opRequested>>,
             soAccessGranted(FS, nInode, opRequested, proc.uid, proc.gid))

NextAccess ==
  \E nInode \in 0..sb.itotal, opRequested \in 0..(R + W + X + 1) :
    AccessGranted(nInode, opRequested)

SpecAccess == InitAccess /\ [][NextAccess]_vars

\* the inode of the last check and the operations it asked for
Asked == itable[ret.arg[1]]
OpMask == ret.arg[2]

\* a check of a legal request on an inode in use
Checked ==
  /\ ret.op = "accessGranted"
  /\ ret.arg[1] < sb.itotal /\ OpMask \in 1..(R + W + X)
  /\ soQCheckInodeIU(FS, Asked) = OK

\* every bit of the request op is among bits
Subset(op, bits) == \A b \in {R, W, X} : HasBit(op, b) => HasBit(bits, b)

AnyX(mode) ==
  HasBit(UsrBits(mode), X) \/ HasBit(GrpBits(mode), X) \/ HasBit(OthBits(mode), X)

\* the one class of permissions that stands for the calling process
SelectedClass(inode) ==
  IF proc.uid = inode.owner THEN UsrBits(inode.mode)
  ELSE IF proc.gid = inode.group THEN GrpBits(inode.mode)
  ELSE OthBits(inode.mode)

\* C11: a check made by a process of uid 0 on an inode in use is granted
\* when it asks only for R and/or W, whoever owns the inode and whatever its
\* mode, and a request holding X is granted exactly when some class has X.
C11_RootRule ==
  (Checked /\ proc.uid = 0) =>
    (ret.err = OK <=> (~HasBit(OpMask, X) \/ AnyX(Asked.mode)))

\* C12: a check made by a process other than root is decided by one class
\* alone: user bits for the owner, else group bits for a member of the
\* group, else the other bits.
C12_OneClass ==
  (Checked /\ proc.uid # 0) =>
    (ret.err = OK <=> Subset(OpMask, SelectedClass(Asked)))

\* C13: a request of several operations is granted exactly when every one
\* of them is in the class that stands for the caller; here on inodes whose
\* three classes carry the same bits, so that the class chosen is immaterial.
C13_SubsetTest ==
  (/\ Checked /\ OpMask \notin {R, W, X}
   /\ proc.uid # 0 /\ Asked.owner # 0
   /\ UsrBits(Asked.mode) = GrpBits(Asked.mode)
   /\ GrpBits(Asked.mode) = OthBits(Asked.mode)) =>
    (ret.err = OK <=> Subset(OpMask, UsrBits(Asked.mode)))

(* ------------------------------------------------------------------ *)
(* The data-cluster allocator on a freshly formatted device.           *)
(* ------------------------------------------------------------------ *)
\* data clusters of the device explored by the allocator
DZoneTotal == 9

\* operations explored on the data-cluster allocator
MaxOpsDZ == 11

AllocDataCluster ==
  /\ nops < MaxOpsDZ
  /\ Perform("allocDataCluster", <<sb.dzone_free>>, soAllocDataCluster(FS))

FreeDataCluster(nClust) ==
  /\ nops < MaxOpsDZ
  /\ Perform("freeDataCluster", <<nClust>>, soFreeDataCluster(FS, nClust))

InitDZ == mkfs(IPB * ITableBlocks, DZoneTotal, 1, 1)

NextDZ ==
  \/ AllocDataCluster
  \/ \E nClust \in 0..sb.dzone_total : FreeDataCluster(nClust)

SpecDZ == InitDZ /\ [][NextDZ]_vars

\* the clusters whose bit is set in the bitmap table
BitmapRefs == {c \in 0..(sb.dzone_total - 1) : BMapBit(bmapt, c)}

\* the number of positions of the retrieval cache at or after cache_idx
RetrievCount == DZONE_CACHE_SIZE - sb.dzone_retriev.cache_idx

\* C2: after any sequence of allocDataCluster and freeDataCluster calls,
\* dzone_free is the number of references held by the bits set in the
\* bitmap, the retrieval cache from cache_idx on and the insertion cache
\* below cache_idx, and these three sets are pairwise disjoint.
C2_FreeCount ==
  /\ sb.dzone_free = Cardinality(BitmapRefs \cup RetrievRefs(FS) \cup InsertRefs(FS))
  /\ BitmapRefs \cap RetrievRefs(FS) = {}
  /\ BitmapRefs \cap InsertRefs(FS) = {}
  /\ RetrievRefs(FS) \cap InsertRefs(FS) = {}

\* C7: allocDataCluster succeeds whenever dzone_free >= 1, also when the
\* replenishment has to deplete the insertion cache and resume the scan,
\* and it reports no space only when dzone_free = 0.
C7_AllocSucceeds ==
  (ret.op = "allocDataCluster") =>
     /\ (ret.arg[1] >= 1 => ret.err = OK)
     /\ (ret.err = "ENOSPC" => ret.arg[1] = 0)

(* ------------------------------------------------------------------ *)
(* The clusters of the files of a freshly formatted device.           *)
(* ------------------------------------------------------------------ *)
\* operations explored on the file clusters
MaxOpsFC == 4

FileOps == {GET, ALLOC, FREE, FREE_CLEAN, CLEAN}

AllocInodeFC(type) ==
  /\ nops < MaxOpsFC
  /\ Perform("allocInode", <<>>, soAllocInode(FS, type, proc.uid, proc.gid))

FreeInodeFC(n) ==
  /\ nops < MaxOpsFC
  /\ Perform("freeInode", <<>>, soFreeInode(FS, n))

CleanInode(n) ==
  /\ nops < MaxOpsFC
  /\ Perform("cleanInode", <<>>, soCleanInode(FS, n))

HandleFileCluster(nInode, clustInd, op) ==
  /\ nops < MaxOpsFC
  /\ Perform("handleFileCluster", <<op>>, soHandleFileCluster(FS, nInode, clustInd, op))

HandleFileClusters(nInode, clustInd, op) ==
  /\ nops < MaxOpsFC
  /\ Perform("handleFileClusters", <<op>>, soHandleFileClusters(FS, nInode, clustInd, op))

WriteFileCluster(nInode, clustInd) ==
  /\ nops < MaxOpsFC
  /\ Perform("writeFileCluster", <<>>, soWriteFileCluster(FS, nInode, clustInd, DataClust))

AllocDataClusterFC ==
  /\ nops < MaxOpsFC
  /\ Perform("allocDataCluster", <<>>, soAllocDataCluster(FS))

FreeDataClusterFC(nClust) ==
  /\ nops < MaxOpsFC
  /\ Perform("freeDataCluster", <<>>, soFreeDataCluster(FS, nClust))

InitFC == mkfs(IPB * ITableBlocks, DZoneTotal, 1, 1)

NextFC ==
  \/ \E type \in InodeTypes : AllocInodeFC(type)
  \/ \E n \in 0..(sb.itotal - 1) : FreeInodeFC(n)
  \/ \E n \in 0..(sb.itotal - 1) : CleanInode(n)
  \/ \E n \in 0..(sb.itotal - 1), ci \in 0..(MAX_FILE_CLUSTERS - 1), op \in FileOps :
       HandleFileCluster(n, ci, op)
  \/ \E n \in 0..(sb.itotal - 1), ci \in 0..(MAX_FILE_CLUSTERS - 1), op \in FileOps :
       HandleFileClusters(n, ci, op)
  \/ \E n \in 0..(sb.itotal - 1), ci \in 0..(MAX_FILE_CLUSTERS - 1) :
       WriteFileCluster(n, ci)
  \/ AllocDataClusterFC
  \/ \E nClust \in 0..(sb.dzone_total - 1) : FreeDataClusterFC(nClust)

SpecFC == InitFC /\ [][NextFC]_vars

\* the references of a table that are not null
NonNull(refs) == {c \in Range(refs) : c # NULL_CLUSTER}

\* the clusters of references of an inode: i1, i2 and those i2 refers to
IndClusters(ino) ==
  LET top == {c \in {ino.i1, ino.i2} : c # NULL_CLUSTER}
      sub == IF ino.i2 = NULL_CLUSTER THEN {}
             ELSE NonNull(RefView(dzone[ino.i2]))
  IN  [top |-> top, sub |-> sub]

\* the references to data clusters an inode holds, as (table, position) pairs
DataRefs(ino) ==
  LET ic == IndClusters(ino)
  IN  {<<-1, k, ino.d[k]>> : k \in {j \in DOMAIN ino.d : ino.d[j] # NULL_CLUSTER}}
      \cup (IF ino.i1 = NULL_CLUSTER THEN {}
            ELSE {<<ino.i1, k, RefView(dzone[ino.i1])[k]>> :
                    k \in {j \in 0..(RPC - 1) : RefView(dzone[ino.i1])[j] # NULL_CLUSTER}})
      \cup UNION {{<<c, k, RefView(dzone[c])[k]>> :
                     k \in {j \in 0..(RPC - 1) : RefView(dzone[c])[j] # NULL_CLUSTER}} :
                  c \in ic.sub}

\* every cluster an inode reaches, the clusters of references included
Reachable(ino) ==
  IndClusters(ino).top \cup IndClusters(ino).sub \cup {r[3] : r \in DataRefs(ino)}

InUse(n) == ~HasBit(itable[n].mode, INODE_FREE)

(* ------------------------------------------------------------------ *)
(* Runs of successful calls on the clusters of the files.             *)
(* ------------------------------------------------------------------ *)
\* calls explored in a run of successful calls
MaxOpsOK == 5

\* data clusters of the device the runs of successful calls are made on
DZoneTotalOK == 4

\* a call made while every call before it has succeeded
Call(op, arg, r) ==
  /\ ret.allok
  /\ nops < MaxOpsOK
  /\ Perform(op, arg, r)

AllocInodeOK(type) ==
  Call("allocInode", <<>>, soAllocInode(FS, type, proc.uid, proc.gid))

FreeInodeOK(n) == Call("freeInode", <<>>, soFreeInode(FS, n))

HandleFileClusterOK(nInode, clustInd, op) ==
  Call("handleFileCluster", <<op>>, soHandleFileCluster(FS, nInode, clustInd, op))

HandleFileClustersOK(nInode, clustInd, op) ==
  Call("handleFileClusters", <<op>>, soHandleFileClusters(FS, nInode, clustInd, op))

WriteFileClusterOK(nInode, clustInd) ==
  Call("writeFileCluster", <<>>, soWriteFileCluster(FS, nInode, clustInd, DataClust))

AllocDataClusterOK == Call("allocDataCluster", <<>>, soAllocDataCluster(FS))

NextOK ==
  \/ \E type \in InodeTypes : AllocInodeOK(type)
  \/ \E n \in 0..(sb.itotal - 1) : FreeInodeOK(n)
  \/ \E n \in 0..(sb.itotal - 1), ci \in 0..(MAX_FILE_CLUSTERS - 1), op \in FileOps :
       HandleFileClusterOK(n, ci, op)
  \/ \E n \in 0..(sb.itotal - 1), ci \in 0..(MAX_FILE_CLUSTERS - 1), op \in FileOps :
       HandleFileClustersOK(n, ci, op)
  \/ \E n \in 0..(sb.itotal - 1), ci \in 0..(MAX_FILE_CLUSTERS - 1) :
       WriteFileClusterOK(n, ci)
  \/ AllocDataClusterOK

InitOK == mkfs(IPB, DZoneTotalOK, 1, 1)

SpecOK == InitOK /\ [][NextOK]_vars


\* C4: after successful calls only, every cluster an in-use inode reaches
\* through d, i1, i2 or its clusters of references, these clusters included,
\* is mapped to that inode in the cluster-to-inode table.
C4_MapOwner ==
  ret.allok =>
    \A n \in DOMAIN itable :
      InUse(n) => \A c \in Reachable(itable[n]) : ctinmt[c] = n

\* C5: after successful calls only, clucount of every inode is the number
\* of its references to data clusters, in d and in its clusters of
\* references, plus the number of its clusters of references.
C5_CluCount ==
  ret.allok =>
    \A n \in DOMAIN itable :
      itable[n].clucount =
        Cardinality(DataRefs(itable[n]))
          + Cardinality(IndClusters(itable[n]).top)
          + Cardinality(IndClusters(itable[n]).sub)

\* the clusters the cluster-to-inode table gives to an inode
Mapped == {c \in 0..(sb.dzone_total - 1) : ctinmt[c] # NULL_INODE}

\* the number of the four states a cluster is in
StatesOf(c) ==
  (IF c \in BitmapRefs THEN 1 ELSE 0) + (IF c \in RetrievRefs(FS) THEN 1 ELSE 0)
    + (IF c \in InsertRefs(FS) THEN 1 ELSE 0) + (IF c \in Mapped THEN 1 ELSE 0)

CLUSTER_SIZE == DPC

BSLPC == CLUSTER_SIZE

MAX_FILE_SIZE == MAX_FILE_CLUSTERS * BSLPC

ADD == 0
ATTACH == 1
REM == 0
DETACH == 1

\* the values an uninitialised j holds when the scan of a directory of no
\* cluster leaves it unset
UninitJ == {0, DPC}

\* what is left undefined in one call: the test soReadFileCluster makes
\* through the unset pointer, and the j of a scan that never ran
Uninit == [test : UninitOutcomes, j : UninitJ]

\* the process was killed
Died(r) == r.err = "SIGSEGV"

\* a cluster read as directory entries; a cluster of zero bytes gives
\* entries of zero name and nInode 0
DirView(cl) ==
  IF cl.kind = "dir" THEN cl.de
  ELSE [k \in 0..(DPC - 1) |-> DirEntry(ZeroName, 0)]

\* the entry k of a cluster replaced; contents other than directory
\* entries or zero bytes are not followed further
SetEntry(cl, k, e) ==
  IF cl.kind \in {"dir", "zero"} THEN DirClust([DirView(cl) EXCEPT ![k] = e])
  ELSE cl

\* the contents of a directory: its size a multiple of the cluster, and
\* its first cluster starting with the entries "." and ".."
soQCheckDirCont(s, inode) ==
  IF inode.size % CLUSTER_SIZE # 0 \/ inode.d[0] = NULL_CLUSTER THEN "EDIRINVAL"
  ELSE IF \/ s.dzone[inode.d[0]].kind # "dir"
          \/ CStr(s.dzone[inode.d[0]].de[0].name) # <<DOT>>
          \/ CStr(s.dzone[inode.d[0]].de[1].name) # <<DOT, DOT>>
  THEN "EDIRINVAL"
  ELSE OK

\* basename of libgen.h
RECURSIVE StripSlashes(_)
StripSlashes(str) ==
  IF str # <<>> /\ str[Len(str)] = SLASH
  THEN StripSlashes(SubSeq(str, 1, Len(str) - 1))
  ELSE str

RECURSIVE LastComponent(_)
LastComponent(str) ==
  IF \E k \in 1..Len(str) : str[k] = SLASH THEN LastComponent(Tail(str)) ELSE str

basename(str) ==
  IF str = <<>> THEN <<DOT>>
  ELSE IF StripSlashes(str) = <<>> THEN <<SLASH>>
  ELSE LastComponent(StripSlashes(str))

\* no index of a clean entry remembered yet
NoIndex == -1

\* the scan of the entries j.. of cluster i of a directory
RECURSIVE soGetDirEntryScan(_, _, _, _, _)
soGetDirEntryScan(de, eName, i, j, indice) ==
  IF j = DPC THEN [found |-> FALSE, indice |-> indice, nInode |-> NULL_INODE, idx |-> 0]
  ELSE IF de[j].name[0] = 0 /\ de[j].name[1] = 0
  THEN soGetDirEntryScan(de, eName, i, j + 1,
                         IF indice = NoIndex THEN (i * DPC) + j ELSE indice)
  ELSE IF CStr(de[j].name) = eName
  THEN [found |-> TRUE, indice |-> indice, nInode |-> de[j].nInode,
        idx |-> (i * DPC) + j]
  ELSE soGetDirEntryScan(de, eName, i, j + 1, indice)

\* what a call that found nothing leaves in *p_nInodeEnt and *p_idx
NoEntry == [nInodeEnt |-> NULL_INODE, idx |-> 0]

\* the loop over the n clusters of the directory, from cluster i on, and
\* the values given back when it ends
RECURSIVE soGetDirEntryLoop(_, _, _, _, _, _, _)
soGetDirEntryLoop(s, nInodeDir, eName, i, n, indice, u) ==
  IF i >= n
  THEN Res(s, "ENOENT",
           [nInodeEnt |-> NULL_INODE,
            idx |-> IF indice # NoIndex THEN indice
                    ELSE IF n = 0 THEN u.j ELSE DPC])
  ELSE
    The({ IF c.err # OK THEN Res(c.st, c.err, NoEntry)
          ELSE The({ IF f.found
                     THEN Res(c.st, OK, [nInodeEnt |-> f.nInode, idx |-> f.idx])
                     ELSE soGetDirEntryLoop(c.st, nInodeDir, eName, i + 1, n,
                                            f.indice, u)
                   : f \in {soGetDirEntryScan(DirView(c.out), eName, i, 0, indice)} })
        : c \in {soReadFileCluster(s, nInodeDir, i, u.test)} })

soGetDirEntryByName(s, nInodeDir, eName, uid, gid, u) ==
  IF Len(eName) > MAX_NAME /\ u.test = "SIGSEGV" THEN Res(s, "SIGSEGV", NoEntry)
  ELSE IF basename(eName) # eName THEN Res(s, "EINVAL", NoEntry)
  ELSE IF Len(eName) = 0 THEN Res(s, "EINVAL", NoEntry)
  ELSE IF Len(eName) > MAX_NAME THEN Res(s, "ENAMETOOLONG", NoEntry)
  ELSE IF nInodeDir >= s.sb.itotal THEN Res(s, "EINVAL", NoEntry)
  ELSE
    LET rd == soReadInode(s, nInodeDir, IUIN)
        ag == soAccessGranted(rd.st, nInodeDir, X, uid, gid)
    IN  IF rd.err # OK THEN Res(rd.st, rd.err, NoEntry)
        ELSE IF TypeOf(rd.out.mode) # INODE_DIR THEN Res(rd.st, "ENOTDIR", NoEntry)
        ELSE IF ag.err # OK THEN Res(ag.st, ag.err, NoEntry)
        ELSE IF soQCheckDirCont(ag.st, rd.out) # OK
        THEN Res(ag.st, soQCheckDirCont(ag.st, rd.out), NoEntry)
        ELSE soGetDirEntryLoop(ag.st, nInodeDir, eName, 0,
                               rd.out.size \div CLUSTER_SIZE, NoIndex, u)

\* the cluster list indexes of the clusters a directory of this size has
DirClustInds(ino) == 0..((ino.size \div CLUSTER_SIZE) - 1)

\* the entries of the directory nInode, each with its index
DirEntries(s, nInode) ==
  { <<(i * DPC) + j, DirView(s.dzone[soHandleFileCluster(s, nInode, i, GET).out])[j]>> :
      i \in { c \in DirClustInds(s.itable[nInode]) :
                soHandleFileCluster(s, nInode, c, GET).out # NULL_CLUSTER },
      j \in 0..(DPC - 1) }

\* a directory is empty when no entry after "." and ".." is in use
soCheckDirectoryEmptiness(s, nInodeDir) ==
  IF \E e \in DirEntries(s, nInodeDir) : e[1] >= 2 /\ e[2].name[0] # 0
  THEN "ENOTEMPTY" ELSE OK

\* the first cluster written to a directory being added
NewDirClust(nInodeEnt, nInodeDir) ==
  DirClust([j \in 0..(DPC - 1) |->
              IF j = 0 THEN DirEntry(Str(<<DOT>>), nInodeEnt)
              ELSE IF j = 1 THEN DirEntry(Str(<<DOT, DOT>>), nInodeDir)
              ELSE CleanEntry])

\* the entries 1.. of a cluster made clean
ClearTail(cl) ==
  DirClust([j \in 0..(DPC - 1) |-> IF j = 0 THEN DirView(cl)[0] ELSE CleanEntry])

\* a 16-bit count after adding n to it
Count16(c, n) == (c + n) % 65536

\* the last part of soAddAttDirEntry: the entry is stored at indice and
\* the two inodes are written
soAddAttDirEntryStore(s, nInodeDir, eName, nInodeEnt, inodedir, inodeent, indice, u) ==
  The({ IF c.err # OK THEN Res(c.st, c.err, 0)
        ELSE
          The({ IF wi.err # OK THEN Res(wi.st, wi.err, 0)
                ELSE
                  The({ IF wc.err # OK THEN Res(wc.st, wc.err, 0)
                        ELSE Res(soWriteInode(wc.st, inodeent, nInodeEnt, IUIN).st,
                                 soWriteInode(wc.st, inodeent, nInodeEnt, IUIN).err, 0)
                      : wc \in {soWriteFileCluster(
                                  wi.st, nInodeDir, indice \div DPC,
                                  SetEntry(IF indice % DPC = 0 THEN ClearTail(c.out)
                                           ELSE c.out,
                                           indice % DPC,
                                           DirEntry(Str(eName), nInodeEnt)))} })
              : wi \in {soWriteInode(c.st,
                                     IF indice % DPC = 0
                                     THEN [inodedir EXCEPT !.size = @ + BSLPC]
                                     ELSE inodedir,
                                     nInodeDir, IUIN)} })
      : c \in {soReadFileCluster(s, nInodeDir, indice \div DPC, u.test)} })

\* op = ATTACH
soAddAttDirEntryAttach(s, nInodeDir, eName, nInodeEnt, inodedir, inodeent, indice, u) ==
  IF TypeOf(inodeent.mode) = INODE_DIR THEN Res(s, "EIUININVAL", 0)
  ELSE IF inodeent.size = 0 THEN Res(s, "EPERM", 0)
  ELSE
    The({ IF c.err # OK THEN Res(c.st, c.err, 0)
          ELSE
            The({ IF wc.err # OK THEN Res(wc.st, wc.err, 0)
                  ELSE
                    LET r2 == soReadInode(wc.st, nInodeEnt, IUIN)
                        dirNew == [inodedir EXCEPT !.refcount = Count16(@, 1)]
                        wd == soWriteInode(r2.st, dirNew, nInodeDir, IUIN)
                        entNew == [r2.out EXCEPT !.refcount = Count16(@, 2)]
                        we == soWriteInode(wd.st, entNew, nInodeEnt, IUIN)
                    IN  IF r2.err # OK THEN Res(r2.st, r2.err, 0)
                        ELSE IF wd.err # OK THEN Res(wd.st, wd.err, 0)
                        ELSE IF we.err # OK THEN Res(we.st, we.err, 0)
                        ELSE soAddAttDirEntryStore(we.st, nInodeDir, eName, nInodeEnt,
                                                   dirNew, entNew, indice, u)
                : wc \in {soWriteFileCluster(
                            c.st, nInodeEnt, 0,
                            SetEntry(c.out, 1,
                                     [DirView(c.out)[1] EXCEPT !.nInode = nInodeDir]))} })
        : c \in {soReadFileCluster(s, nInodeEnt, 0, u.test)} })

\* op = ADD
soAddAttDirEntryAdd(s, nInodeDir, eName, nInodeEnt, inodedir, inodeent, indice, u) ==
  IF TypeOf(inodeent.mode) = INODE_DIR
  THEN
    The({ IF w.err # OK THEN Res(w.st, w.err, 0)
          ELSE
            LET r2 == soReadInode(w.st, nInodeEnt, IUIN)
            IN  IF r2.err # OK THEN Res(r2.st, r2.err, 0)
                ELSE soAddAttDirEntryStore(
                       r2.st, nInodeDir, eName, nInodeEnt,
                       [inodedir EXCEPT !.refcount = Count16(@, 1)],
                       [r2.out EXCEPT !.size = BSLPC, !.refcount = Count16(@, 2)],
                       indice, u)
        : w \in {soWriteFileCluster(s, nInodeEnt, 0, NewDirClust(nInodeEnt, nInodeDir))} })
  ELSE
    LET entNew == [inodeent EXCEPT !.refcount = Count16(@, 1)]
        wi == soWriteInode(s, entNew, nInodeEnt, IUIN)
    IN  IF wi.err # OK THEN Res(wi.st, wi.err, 0)
        ELSE soAddAttDirEntryStore(wi.st, nInodeDir, eName, nInodeEnt,
                                   inodedir, entNew, indice, u)

\* eName == "." and eName == ".." compare the address of the caller's
\* string with the addresses of two literals of this file: never equal
soAddAttDirEntry(s, nInodeDir, eName, nInodeEnt, op, uid, gid, u) ==
  IF nInodeDir >= s.sb.itotal \/ nInodeEnt >= s.sb.itotal THEN Res(s, "EINVAL", 0)
  ELSE IF Len(eName) > MAX_NAME THEN Res(s, "ENAMETOOLONG", 0)
  ELSE IF \E k \in 1..Len(eName) : eName[k] = SLASH THEN Res(s, "EINVAL", 0)
  ELSE
    LET rd == soReadInode(s, nInodeDir, IUIN)
        ax == soAccessGranted(rd.st, nInodeDir, X, uid, gid)
        aw == soAccessGranted(ax.st, nInodeDir, W, uid, gid)
        re == soReadInode(aw.st, nInodeEnt, IUIN)
    IN  IF rd.err # OK THEN Res(rd.st, rd.err, 0)
        ELSE IF op # ADD /\ op # ATTACH THEN Res(rd.st, "EINVAL", 0)
        ELSE IF ax.err # OK THEN Res(ax.st, ax.err, 0)
        ELSE IF aw.err = "EACCES" THEN Res(aw.st, "EPERM", 0)
        ELSE IF aw.err # OK THEN Res(aw.st, aw.err, 0)
        ELSE IF TypeOf(rd.out.mode) # INODE_DIR THEN Res(aw.st, "ENOTDIR", 0)
        ELSE IF rd.out.size = MAX_FILE_SIZE THEN Res(aw.st, "EFBIG", 0)
        ELSE IF re.err # OK THEN Res(re.st, re.err, 0)
        ELSE IF rd.out.refcount = 65535 \/ re.out.refcount = 65535
        THEN Res(re.st, "EMLINK", 0)
        ELSE
          The({ IF Died(g) THEN Res(g.st, g.err, 0)
                ELSE IF g.err # "ENOENT" THEN Res(g.st, "EEXIST", 0)
                ELSE IF op = ADD
                THEN soAddAttDirEntryAdd(g.st, nInodeDir, eName, nInodeEnt,
                                         rd.out, re.out, g.out.idx, u)
                ELSE soAddAttDirEntryAttach(g.st, nInodeDir, eName, nInodeEnt,
                                            rd.out, re.out, g.out.idx, u)
              : g \in {soGetDirEntryByName(re.st, nInodeDir, eName, uid, gid, u)} })

\* the name of an entry being removed: its last character takes the
\* first, and the first becomes NUL
Removed(name) == [[name EXCEPT ![MAX_NAME] = name[0]] EXCEPT ![0] = 0]

\* the inodes are written, errors unseen, then the file is deleted when
\* no link is left, then the cluster of the directory is written
soRemDetachDirEntryWrite(s, nInodeDir, nInodeEnt, op, dirNew, entNew, i, cluster) ==
  The({ IF h.err # OK THEN Res(h.st, h.err, 0)
        ELSE
          The({ IF f.err # OK THEN Res(f.st, f.err, 0)
                ELSE
                  The({ Res(wc.st, wc.err, 0)
                      : wc \in {soWriteFileCluster(f.st, nInodeDir, i, cluster)} })
              : f \in {IF op = REM /\ (\/ entNew.refcount = 0
                                       \/ (entNew.refcount = 1
                                             /\ HasBit(entNew.mode, INODE_DIR)))
                       THEN soFreeInode(h.st, nInodeEnt)
                       ELSE Res(h.st, OK, 0)} })
      : h \in {IF op = REM /\ (\/ entNew.refcount = 0
                               \/ (entNew.refcount = 1
                                     /\ HasBit(entNew.mode, INODE_DIR)))
               THEN soHandleFileClusters(
                      soWriteInode(soWriteInode(s, entNew, nInodeEnt, op).st,
                                   dirNew, nInodeDir, op).st,
                      nInodeEnt, 0, op)
               ELSE Res(soWriteInode(soWriteInode(s, entNew, nInodeEnt, op).st,
                                     dirNew, nInodeDir, op).st, OK, 0)} })

\* the entry index of cluster i is taken out of the directory
soRemDetachDirEntryUnlink(s, nInodeDir, op, inodeDir, nInodeEnt, i, index, u) ==
  The({ IF c.err # OK THEN Res(c.st, c.err, 0)
        ELSE
          LET re == soReadInode(c.st, nInodeEnt, op)
              isDir == HasBit(re.out.mode, INODE_DIR)
              entNew == [re.out EXCEPT !.refcount =
                           Count16(@, IF isDir /\ op = REM THEN 65534 ELSE 65535)]
              dirNew == IF isDir
                        THEN [inodeDir EXCEPT !.refcount = Count16(@, 65535)]
                        ELSE inodeDir
          IN  IF re.err # OK THEN Res(re.st, re.err, 0)
              ELSE IF op = REM
              THEN IF isDir /\ soCheckDirectoryEmptiness(re.st, nInodeEnt) # OK
                   THEN Res(re.st, "ENOTEMPTY", 0)
                   ELSE soRemDetachDirEntryWrite(
                          re.st, nInodeDir, nInodeEnt, op, dirNew, entNew, i,
                          SetEntry(c.out, index,
                                   [DirView(c.out)[index] EXCEPT !.name = Removed(@)]))
              ELSE
                The({ IF c1.err # OK THEN Res(c1.st, c1.err, 0)
                      ELSE soRemDetachDirEntryWrite(
                             c1.st, nInodeDir, nInodeEnt, op, dirNew, entNew, i,
                             SetEntry(c.out, index, DirEntry(ZeroName, NULL_CLUSTER)))
                    : c1 \in {IF isDir THEN soReadFileCluster(re.st, nInodeEnt, 0, u.test)
                              ELSE Res(re.st, OK, ZeroClust)} })
      : c \in {soReadFileCluster(s, nInodeDir, i, u.test)} })

\* op is handed to soReadInode and to soWriteInode as the status of the
\* inode, and to soHandleFileClusters as the operation on the clusters
soRemDetachDirEntry(s, nInodeDir, eName, op, uid, gid, u) ==
  IF eName = <<DOT>> \/ eName = <<DOT, DOT>> THEN Res(s, "EPERM", 0)
  ELSE
    LET rd == soReadInode(s, nInodeDir, op)
        aw == soAccessGranted(rd.st, nInodeDir, W, uid, gid)
        ax == soAccessGranted(aw.st, nInodeDir, X, uid, gid)
    IN  IF rd.err # OK THEN Res(rd.st, rd.err, 0)
        ELSE IF TypeOf(rd.out.mode) # INODE_DIR THEN Res(rd.st, "ENOTDIR", 0)
        ELSE IF aw.err # OK THEN Res(aw.st, aw.err, 0)
        ELSE IF ax.err # OK THEN Res(ax.st, ax.err, 0)
        ELSE
          The({ IF g.err # OK THEN Res(g.st, g.err, 0)
                ELSE IF g.out.nInodeEnt = NULL_INODE THEN Res(g.st, "ENOENT", 0)
                ELSE soRemDetachDirEntryUnlink(g.st, nInodeDir, op, rd.out,
                                               g.out.nInodeEnt, g.out.idx \div DPC,
                                               g.out.idx % DPC, u)
              : g \in {soGetDirEntryByName(ax.st, nInodeDir, eName, uid, gid, u)} })

\* a variant that lets "." and ".." be renamed
soRenameDirEntryPath_dots(oldName, newName) ==
  \/ \E k \in 1..Len(newName) : newName[k] = SLASH
  \/ \E k \in 1..Len(oldName) : oldName[k] = SLASH

\* one of the names is a path, or the old name is "." or ".."
soRenameDirEntryPath(oldName, newName) ==
  \/ \E k \in 1..Len(newName) : newName[k] = SLASH
  \/ \E k \in 1..Len(oldName) : oldName[k] = SLASH
  \/ oldName = <<DOT>> \/ oldName = <<DOT, DOT>>

soRenameDirEntry(s, nInodeDir, oldName, newName, uid, gid, u) ==
  IF nInodeDir >= s.sb.itotal THEN Res(s, "EINVAL", 0)
  ELSE
    LET rd == soReadInode(s, nInodeDir, IUIN)
        ax == soAccessGranted(rd.st, nInodeDir, X, uid, gid)
        aw == soAccessGranted(ax.st, nInodeDir, W, uid, gid)
    IN  IF rd.err # OK THEN Res(rd.st, rd.err, 0)
        ELSE IF Len(newName) > MAX_NAME THEN Res(rd.st, "ENAMETOOLONG", 0)
        ELSE IF ax.err # OK THEN Res(ax.st, "EACCES", 0)
        ELSE IF aw.err # OK THEN Res(aw.st, "EPERM", 0)
        ELSE IF soRenameDirEntryPath(oldName, newName)
        THEN Res(aw.st, "EINVAL", 0)
        ELSE IF TypeOf(rd.out.mode) # INODE_DIR THEN Res(aw.st, "ENOTDIR", 0)
        ELSE
          The({ IF Died(g1) THEN Res(g1.st, g1.err, 0)
                ELSE IF g1.err # OK THEN Res(g1.st, "ENOENT", 0)
                ELSE
                  The({ IF Died(g2) THEN Res(g2.st, g2.err, 0)
                        ELSE IF g2.err = OK THEN Res(g2.st, "EEXIST", 0)
                        ELSE IF soQCheckDirCont(g2.st, rd.out) # OK
                        THEN Res(g2.st, soQCheckDirCont(g2.st, rd.out), 0)
                        ELSE
                          The({ IF c.err # OK THEN Res(c.st, c.err, 0)
                                ELSE
                                  The({ Res(wc.st, wc.err, 0)
                                      : wc \in {soWriteFileCluster(
                                                  c.st, nInodeDir, g1.out.idx \div DPC,
                                                  SetEntry(c.out, g1.out.idx % DPC,
                                                           [DirView(c.out)[g1.out.idx % DPC]
                                                              EXCEPT !.name = Str(newName)]))} })
                              : c \in {soReadFileCluster(g2.st, nInodeDir,
                                                         g1.out.idx \div DPC, u.test)} })
                      : g2 \in {soGetDirEntryByName(g1.st, nInodeDir, newName,
                                                    uid, gid, u)} })
              : g1 \in {soGetDirEntryByName(aw.st, nInodeDir, oldName, uid, gid, u)} })

(* ------------------------------------------------------------------ *)
(* Directory operations on a device holding a directory and a file.    *)
(* ------------------------------------------------------------------ *)
\* data clusters of the devices explored
DZoneTotalDir == 6

\* directory operations called in a row
MaxOpsDir == 1

\* the directory and the file the devices hold: the first two inodes
\* soAllocInode hands out on a formatted device
DirInode == 1
FileInode == 2

\* names of one and of two letters, a different one for every k
NameOf(k) ==
  IF k < 3 THEN <<CharA + k>>
  ELSE <<CharA + ((k \div 3) - 1), CharA + (k % 3)>>

\* what the slot of an entry holds: a link to the file, a link to the file
\* removed since, under a name of one letter or of two, or nothing yet
SlotKinds == {"use", "del1", "del2", "clean"}

EntryOf(kind, k) ==
  IF kind = "use" THEN DirEntry(Str(NameOf(k)), FileInode)
  ELSE IF kind = "del1" THEN DirEntry(Removed(Str(NameOf(1))), FileInode)
  ELSE IF kind = "del2" THEN DirEntry(Removed(Str(NameOf(4))), FileInode)
  ELSE CleanEntry

\* the layouts a directory of n clusters can come to: soAddAttDirEntry
\* fills a cluster from its start, so the entries never used are the tail
\* of each cluster, and a second cluster is there only past a full first
\* one and holds an entry at its start
Layouts(n) ==
  { lay \in [2..((n * DPC) - 1) -> SlotKinds] :
      /\ \A k \in 2..((n * DPC) - 2) :
           (lay[k] = "clean" /\ (k + 1) % DPC # 0) => lay[k + 1] = "clean"
      /\ n = 2 => /\ \A k \in 2..(DPC - 1) : lay[k] # "clean"
                  /\ lay[DPC] # "clean" }

Links(lay) == Cardinality({k \in DOMAIN lay : lay[k] = "use"})

\* the cluster i of the directory DirInode under a layout
LaidClust(lay, i) ==
  DirClust([j \in 0..(DPC - 1) |->
              IF (i * DPC) + j = 0 THEN DirEntry(Str(<<DOT>>), DirInode)
              ELSE IF (i * DPC) + j = 1 THEN DirEntry(Str(<<DOT, DOT>>), 0)
              ELSE EntryOf(lay[(i * DPC) + j], (i * DPC) + j)])

\* the root holding the directory under the name NameOf(0) and, when
\* full, links to the file in every entry after it
RootClust(full) ==
  DirClust([j \in 0..(DPC - 1) |->
              IF j = 0 THEN DirEntry(Str(<<DOT>>), 0)
              ELSE IF j = 1 THEN DirEntry(Str(<<DOT, DOT>>), 0)
              ELSE IF j = 2 THEN DirEntry(Str(NameOf(0)), DirInode)
              ELSE IF full THEN EntryOf("use", j)
              ELSE CleanEntry])

\* the device: formatted, the two inodes allocated, the clusters of the
\* directory written, and the counts of the inodes as the links make them
Prepared(n, lay, full) ==
  The({ [w EXCEPT
           !.dzone[0] = RootClust(full),
           !.itable[0].refcount = 3,
           !.itable[DirInode].mode = INODE_DIR + INODE_PERM_ALL,
           !.itable[DirInode].refcount = 2,
           !.itable[DirInode].size = n * CLUSTER_SIZE,
           !.itable[FileInode].refcount =
              Links(lay) + (IF full THEN DPC - 3 ELSE 0)]
      : w \in {IF n = 1 THEN w0.st
               ELSE soWriteFileCluster(w0.st, DirInode, 1, LaidClust(lay, 1)).st
              : w0 \in {soWriteFileCluster(
                          soAllocInode(
                            soAllocInode(Formatted(IPB * ITableBlocks, DZoneTotalDir, 1, 1),
                                         INODE_DIR, 1, 1).st,
                            INODE_FILE, 1, 1).st,
                          DirInode, 0, LaidClust(lay, 0))} } })

InitDir ==
  \E n \in 1..2, full \in BOOLEAN :
    \E lay \in Layouts(n) :
      /\ \/ \A k \in DOMAIN lay : lay[k] \notin {"del1", "del2"}
         \/ Links(lay) + (IF full THEN DPC - 3 ELSE 0) >= 1
      /\ Holds(Prepared(n, lay, full))
      /\ proc = [uid |-> 1, gid |-> 1]
      /\ nops = 0
      /\ ret = [op |-> "mkfs", err |-> OK, out |-> 0, arg |-> <<>>, allok |-> TRUE]

\* a name of more than MAX_NAME characters
TooLong == [k \in 1..(MAX_NAME + 1) |-> CharA]

\* the names given to the operations: the name of the directory in the
\* root, a name no entry has, the names of the links at the entries 2 and
\* DPC of the directory, and names that are not names of files
Names ==
  {NameOf(0), NameOf(1), NameOf(2), NameOf(DPC)}
    \cup {<<>>, <<DOT>>, <<CharA, SLASH>>, TooLong}

\* the new names given to soRenameDirEntry
NewNames == {NameOf(1), NameOf(2), <<>>, <<DOT>>, TooLong}

\* what a call on the inode n can find undefined: j is left unset only
\* by the scan of a directory smaller than a cluster
UninitOf(n) ==
  [test : UninitOutcomes,
   j : IF n < sb.itotal /\ itable[n].size < CLUSTER_SIZE THEN UninitJ ELSE {DPC}]

\* a call made while every call before it has succeeded
CallDir(op, arg, r) ==
  /\ ret.allok
  /\ nops < MaxOpsDir
  /\ Perform(op, arg, r)

\* the result of an operation that gives back no entry
Plain(r) == [r EXCEPT !.out = NoEntry]

GetDirEntryByName(nInodeDir, eName, u) ==
  CallDir("getDirEntryByName", <<nInodeDir, eName, u.test>>,
          soGetDirEntryByName(FS, nInodeDir, eName, proc.uid, proc.gid, u))

AddAttDirEntry(nInodeDir, eName, nInodeEnt, op, u) ==
  CallDir("addAttDirEntry", <<nInodeDir, eName, u.test, nInodeEnt, op>>,
          Plain(soAddAttDirEntry(FS, nInodeDir, eName, nInodeEnt, op, proc.uid, proc.gid, u)))

RemDetachDirEntry(nInodeDir, eName, op, u) ==
  CallDir("remDetachDirEntry", <<nInodeDir, eName, u.test, op>>,
          Plain(soRemDetachDirEntry(FS, nInodeDir, eName, op, proc.uid, proc.gid, u)))

RenameDirEntry(nInodeDir, oldName, newName, u) ==
  CallDir("renameDirEntry", <<nInodeDir, oldName, u.test, newName>>,
          Plain(soRenameDirEntry(FS, nInodeDir, oldName, newName, proc.uid, proc.gid, u)))

\* the inode numbers given to the operations, one past the table
\* included, as long as calls are made
Numbers == IF ret.allok /\ nops < MaxOpsDir THEN 0..sb.itotal ELSE {}

NextDir ==
  \/ \E n \in Numbers, eName \in Names :
       \E u \in UninitOf(n) : GetDirEntryByName(n, eName, u)
  \/ \E n \in Numbers, eName \in Names, e \in Numbers, op \in {ADD, ATTACH, 2} :
       \E u \in UninitOf(n) : AddAttDirEntry(n, eName, e, op, u)
  \/ \E n \in Numbers, eName \in Names, op \in {REM, DETACH} :
       \E u \in UninitOf(n) : RemDetachDirEntry(n, eName, op, u)
  \/ \E n \in Numbers, oldName \in Names, newName \in NewNames :
       \E u \in UninitOf(n) : RenameDirEntry(n, oldName, newName, u)

SpecDir == InitDir /\ [][NextDir]_vars

\* the three states of a directory entry
InUseEntry(e) == e.name[0] # 0
CleanEmpty(e) == e.name = ZeroName /\ e.nInode = NULL_INODE
DirtyEmpty(e) == e.name[0] = 0 /\ e.name[MAX_NAME] # 0

\* the directory, the name and the undefined test of the last call
ArgDir == ret.arg[1]
ArgName == ret.arg[2]
ArgTest == ret.arg[3]

\* the indexes of the entries of the directory n that are clean
CleanIndexes(n) == {e[1] : e \in {d \in DirEntries(FS, n) : CleanEmpty(d[2])}}

\* a directory in use, consistent, that the calling process may search
Searchable(n) ==
  /\ n < sb.itotal
  /\ soQCheckInodeIU(FS, itable[n]) = OK
  /\ TypeOf(itable[n].mode) = INODE_DIR
  /\ soQCheckDirCont(FS, itable[n]) = OK
  /\ soAccessGranted(FS, n, X, proc.uid, proc.gid).err = OK

\* the name of a file
LegalName(name) == Len(name) \in 1..MAX_NAME /\ basename(name) = name

\* a search, with no test lost to the unset pointer, of the name of a file
\* that no entry in use of a searchable directory has
LookupMiss ==
  /\ ret.op = "getDirEntryByName" /\ ArgTest = "pass"
  /\ Searchable(ArgDir) /\ LegalName(ArgName)
  /\ \A e \in DirEntries(FS, ArgDir) :
       ~(InUseEntry(e[2]) /\ CStr(e[2].name) = ArgName)

\* C14: a search that matches no entry in use, in a directory without a
\* clean entry, returns not-found with nInodeEnt = NULL_INODE and idx = the
\* number of entries of the directory, whatever its number of clusters.
C14_AppendPoint ==
  (LookupMiss /\ CleanIndexes(ArgDir) = {}) =>
    /\ ret.err = "ENOENT"
    /\ ret.out = [nInodeEnt |-> NULL_INODE, idx |-> itable[ArgDir].size]

\* C15: a search that matches no entry in use gives as idx the lowest index
\* of a clean entry when there is one, and never the index of an entry
\* deleted by REM, whatever the length of the deleted name.
C15_InsertionPoint ==
  LookupMiss =>
    /\ ret.err = "ENOENT"
    /\ CleanIndexes(ArgDir) # {} =>
         \A k \in CleanIndexes(ArgDir) : ret.out.idx <= k
    /\ \A e \in DirEntries(FS, ArgDir) : e[1] = ret.out.idx => ~DirtyEmpty(e[2])

\* the arguments of the call an add/attach step makes
AddDir == ret'.arg[1]
AddName == ret'.arg[2]
AddEnt == ret'.arg[4]
AddOp == ret'.arg[5]

\* a step of soAddAttDirEntry, no test lost to the unset pointer, that
\* the checks on the arguments let through: a searchable directory the
\* process may write, far from its largest size, the name of a file that
\* no entry in use has, and an inode in use
AddStep ==
  /\ ret'.op = "addAttDirEntry" /\ ret'.arg[3] = "pass"
  /\ AddOp \in {ADD, ATTACH}
  /\ Searchable(AddDir)
  /\ soAccessGranted(FS, AddDir, W, proc.uid, proc.gid).err = OK
  /\ itable[AddDir].size + CLUSTER_SIZE < MAX_FILE_SIZE
  /\ LegalName(AddName)
  /\ \A e \in DirEntries(FS, AddDir) :
       ~(InUseEntry(e[2]) /\ CStr(e[2].name) = AddName)
  /\ AddEnt < sb.itotal /\ soQCheckInodeIU(FS, itable[AddEnt]) = OK

\* C16: the add of a file to the root whose only cluster is full of
\* entries in use, on a device with free clusters, succeeds: the root
\* grows by one cluster, whose entry 0 is the new one and whose other
\* entries are clean.
C16_RootGrows ==
  [][(/\ AddStep /\ AddDir = 0 /\ AddOp = ADD
      /\ TypeOf(itable[AddEnt].mode) = INODE_FILE
      /\ itable[0].size = CLUSTER_SIZE
      /\ \A e \in DirEntries(FS, 0) : InUseEntry(e[2])
      /\ sb.dzone_free >= 2) =>
       /\ ret'.err = OK
       /\ itable'[0].size = itable[0].size + CLUSTER_SIZE
       /\ \A e \in DirEntries(FS', 0) :
            /\ e[1] = DPC => e[2] = DirEntry(Str(AddName), AddEnt)
            /\ e[1] > DPC => CleanEmpty(e[2])
       /\ \E e \in DirEntries(FS', 0) : e[1] = DPC]_vars

\* the directories in use
Directories ==
  {n \in DOMAIN itable : InUse(n) /\ TypeOf(itable[n].mode) = INODE_DIR}

\* C17: after successful calls only, the size of every directory in use is
\* CLUSTER_SIZE times the number of the references to data clusters that
\* its inode and its clusters of references hold.
C17_DirSize ==
  ret.allok =>
    \A n \in Directories :
      itable[n].size = CLUSTER_SIZE * Cardinality(DataRefs(itable[n]))

\* the directories that hold, after "." and "..", an entry in use for n
ParentsOf(n) ==
  {p \in Directories :
     \E e \in DirEntries(FS, p) :
       e[1] >= 2 /\ InUseEntry(e[2]) /\ e[2].nInode = n}

\* the entry j of the first cluster of the directory n
FirstClust(n, j) == DirView(dzone[itable[n].d[0]])[j]

\* C18: after successful calls only, every directory in use that holds a
\* cluster (an inode just allocated holds none yet) has in its cluster 0
\* the entry 0 "." referring to itself and the entry 1 ".." referring to
\* its parent, the root for the root.
C18_DotEntries ==
  ret.allok =>
    \A n \in Directories :
      itable[n].size >= CLUSTER_SIZE =>
        /\ itable[n].d[0] # NULL_CLUSTER
        /\ FirstClust(n, 0) = DirEntry(Str(<<DOT>>), n)
        /\ FirstClust(n, 1).name = Str(<<DOT, DOT>>)
        /\ IF n = 0 THEN FirstClust(n, 1).nInode = 0
           ELSE FirstClust(n, 1).nInode \in ParentsOf(n)

\* the step is a call of one of the operations that change the clusters
\* of a file or the entries of a directory, with no test lost to the
\* unset pointer, and the call returns an error
FailedUpdate ==
  /\ ret'.err # OK
  /\ \/ ret'.op = "writeFileCluster"
     \/ ret'.op = "handleFileCluster" /\ ret'.arg = <<ALLOC>>
     \/ ret'.op \in {"addAttDirEntry", "remDetachDirEntry"} /\ ret'.arg[3] = "pass"

\* C19: a call of handleFileCluster(ALLOC), writeFileCluster,
\* addAttDirEntry or remDetachDirEntry that returns an error leaves the
\* superblock (dzone_free, caches), the bitmap, the cluster-to-inode
\* table, the inodes and the clusters as they were before the call.
C19_AllOrNothing ==
  [][FailedUpdate => UNCHANGED <<sb, bmapt, ctinmt, itable, dzone>>]_vars

\* the arguments of the call a remove/detach step makes
RemDir == ret'.arg[1]
RemName == ret'.arg[2]
RemOp == ret'.arg[4]

\* the entries in use of the directory n that have the name, with their
\* indexes
Named(s, n, name) ==
  {e \in DirEntries(s, n) : InUseEntry(e[2]) /\ CStr(e[2].name) = name}

\* a step of soRemDetachDirEntry, no test lost to the unset pointer, on
\* the name of a file that an entry in use of a searchable directory,
\* which the process may write, has for an inode in use
RemStep ==
  /\ ret'.op = "remDetachDirEntry" /\ ret'.arg[3] = "pass"
  /\ Searchable(RemDir)
  /\ soAccessGranted(FS, RemDir, W, proc.uid, proc.gid).err = OK
  /\ LegalName(RemName) /\ RemName \notin {<<DOT>>, <<DOT, DOT>>}
  /\ \E e \in Named(FS, RemDir, RemName) :
       e[2].nInode < sb.itotal /\ soQCheckInodeIU(FS, itable[e[2].nInode]) = OK

\* the inode the entry removed refers to
RemEnt == (CHOOSE e \in Named(FS, RemDir, RemName) : TRUE)[2].nInode

\* the index of the entry removed
RemIdx == (CHOOSE e \in Named(FS, RemDir, RemName) : TRUE)[1]

\* C8: REM of the last link of a file or of a symbolic link succeeds: the
\* entry is left deleted (first and last characters of the name swapped,
\* nInode kept), the inode ends free in the dirty state at the tail of the
\* list of free inodes, and none of its clusters stays allocated to it.
C8_RemLastLink ==
  [][(/\ RemStep /\ RemOp = REM
      /\ TypeOf(itable[RemEnt].mode) \in {INODE_FILE, INODE_SYMLINK}
      /\ itable[RemEnt].refcount = 1) =>
       /\ ret'.err = OK
       /\ \E e \in DirEntries(FS', RemDir) :
            /\ e[1] = RemIdx
            /\ e[2] = DirEntry(Removed(Str(RemName)), RemEnt)
       /\ HasBit(itable'[RemEnt].mode, INODE_FREE)
       /\ sb'.itail = RemEnt /\ sb'.ifree = sb.ifree + 1
       /\ itable'[RemEnt].clucount = 0]_vars

\* C9: DETACH of an entry succeeds: the entry is left clean, the refcount
\* of the inode goes down by one, that of the directory too when the
\* inode is a directory, and the inode stays in use with its clusters.
C9_Detach ==
  [][(RemStep /\ RemOp = DETACH) =>
       /\ ret'.err = OK
       /\ \E e \in DirEntries(FS', RemDir) : e[1] = RemIdx /\ CleanEmpty(e[2])
       /\ ~HasBit(itable'[RemEnt].mode, INODE_FREE)
       /\ itable'[RemEnt].clucount = itable[RemEnt].clucount
       /\ RemEnt # RemDir =>
            /\ itable'[RemEnt].refcount = itable[RemEnt].refcount - 1
            /\ itable'[RemDir].refcount =
                 itable[RemDir].refcount
                   - (IF TypeOf(itable[RemEnt].mode) = INODE_DIR THEN 1 ELSE 0)]_vars

\* C10: ATTACH is accepted exactly when the inode attached is a directory:
\* its ".." then refers to nInodeDir, its refcount grows by 2 and that of
\* nInodeDir by 1; for a file or a symbolic link the call is rejected with
\* EIUININVAL and nothing is modified.
C10_AttachDirOnly ==
  [][(AddStep /\ AddOp = ATTACH /\ AddEnt # AddDir) =>
       IF TypeOf(itable[AddEnt].mode) = INODE_DIR
       THEN /\ ret'.err = OK
            /\ DirView(dzone'[itable'[AddEnt].d[0]])[1].nInode = AddDir
            /\ itable'[AddEnt].refcount = itable[AddEnt].refcount + 2
            /\ itable'[AddDir].refcount = itable[AddDir].refcount + 1
       ELSE /\ ret'.err = "EIUININVAL"
            /\ UNCHANGED <<sb, bmapt, ctinmt, itable, dzone>>]_vars

(* ------------------------------------------------------------------ *)
(* The root directory under the operations that release resources.     *)
(* ------------------------------------------------------------------ *)
\* operations explored on the prepared devices
MaxOpsRoot == 2

\* the operations of soHandleFileCluster(s) that release
ReleaseOps == {FREE, FREE_CLEAN, CLEAN}

\* the inode numbers, the cluster numbers and the cluster indexes given
\* to the operations as long as calls are made
InodesRoot == IF nops < MaxOpsRoot THEN 0..(sb.itotal - 1) ELSE {}
ClustersRoot == IF nops < MaxOpsRoot THEN 0..(sb.dzone_total - 1) ELSE {}
IndexesRoot == IF nops < MaxOpsRoot THEN 0..(MAX_FILE_CLUSTERS - 1) ELSE {}

\* a call made whatever the calls before it returned; the inode or the
\* cluster it is aimed at is what is kept of its arguments
CallRoot(op, arg, r) ==
  /\ nops < MaxOpsRoot
  /\ Perform(op, arg, Plain(r))

FreeInodeRoot(n) == CallRoot("freeInode", <<n>>, soFreeInode(FS, n))

CleanInodeRoot(n) == CallRoot("cleanInode", <<n>>, soCleanInode(FS, n))

FreeDataClusterRoot(nClust) ==
  CallRoot("freeDataCluster", <<nClust>>, soFreeDataCluster(FS, nClust))

HandleFileClusterRoot(nInode, clustInd, op) ==
  CallRoot("handleFileCluster", <<nInode>>,
           soHandleFileCluster(FS, nInode, clustInd, op))

HandleFileClustersRoot(nInode, clustInd, op) ==
  CallRoot("handleFileClusters", <<nInode>>,
           soHandleFileClusters(FS, nInode, clustInd, op))

RemDetachDirEntryRoot(nInodeDir, eName, op, u) ==
  CallRoot("remDetachDirEntry", <<nInodeDir>>,
           soRemDetachDirEntry(FS, nInodeDir, eName, op, proc.uid, proc.gid, u))

NextRoot ==
  \/ \E n \in InodesRoot : FreeInodeRoot(n)
  \/ \E n \in InodesRoot : CleanInodeRoot(n)
  \/ \E nClust \in ClustersRoot : FreeDataClusterRoot(nClust)
  \/ \E n \in InodesRoot, ci \in IndexesRoot, op \in ReleaseOps :
       HandleFileClusterRoot(n, ci, op)
  \/ \E n \in InodesRoot, ci \in IndexesRoot, op \in ReleaseOps :
       HandleFileClustersRoot(n, ci, op)
  \/ \E n \in InodesRoot, eName \in Names, op \in {REM, DETACH} :
       \E u \in UninitOf(n) : RemDetachDirEntryRoot(n, eName, op, u)

SpecRoot == InitDir /\ [][NextRoot]_vars

\* C6: no sequence of freeInode, cleanInode, freeDataCluster,
\* handleFileCluster(s) with FREE / FREE_CLEAN / CLEAN and
\* remDetachDirEntry calls, failed calls included, makes inode 0 free or
\* other than a directory, sets bit 0 of the bitmap, places cluster 0 in
\* the retrieval or in the insertion cache, or changes entry 0 of the
\* cluster-to-inode table away from 0.
C6_RootKept ==
  /\ ~HasBit(itable[0].mode, INODE_FREE)
  /\ TypeOf(itable[0].mode) = INODE_DIR
  /\ ~BMapBit(bmapt, 0)
  /\ 0 \notin RetrievRefs(FS) \cup InsertRefs(FS)
  /\ ctinmt[0] = 0

\* freeInode of the root is refused after an inode that was in use has
\* been freed
C6_Witness ==
  /\ nops = MaxOpsRoot
  /\ \E n \in {DirInode, FileInode} : HasBit(itable[n].mode, INODE_FREE)
  /\ ret.op = "freeInode" /\ ret.arg = <<0>> /\ ret.err = "EINVAL"

\* C21: right after allocInode returns the inode n, no entry of the
\* cluster-to-inode table equals n: an inode taken from the list in the
\* dirty state has been cleaned of the clusters it owned.
C21_AllocClean ==
  [][(ret'.op = "allocInode" /\ ret'.err = OK) =>
       \A c \in DOMAIN ctinmt' : ctinmt'[c] # ret'.out]_vars

\* C22: freeInode(n) succeeds only on an inode n # 0 that is in use with
\* refcount = 0; when it fails, the inode table and ifree, ihead and
\* itail are as they were before the call.
C22_FreeInodeGuard ==
  [][ret'.op = "freeInode" =>
       IF ret'.err = OK
       THEN /\ ret'.arg[1] # 0
            /\ soQCheckInodeIU(FS, itable[ret'.arg[1]]) = OK
            /\ itable[ret'.arg[1]].refcount = 0
       ELSE /\ itable' = itable
            /\ <<sb'.ifree, sb'.ihead, sb'.itail>> = <<sb.ifree, sb.ihead, sb.itail>>]_vars

\* the inode a cleanInode step is called on
CleanArg == ret'.arg[1]

\* a successful step of soCleanInode on an inode, not the root, that is
\* free in the dirty state
CleanStep ==
  /\ ret'.op = "cleanInode" /\ ret'.err = OK
  /\ CleanArg # 0
  /\ HasBit(itable[CleanArg].mode, INODE_FREE)

MaxOpsRead == 3

\* the inode numbers and the cluster indexes given to the operations as
\* long as calls are made: the first index of the direct, of the single
\* indirect and of the double indirect references, and one out of range
InodesRead == IF ret.allok /\ nops < MaxOpsRead THEN 0..(sb.itotal - 1) ELSE {}
IndexesRead == IF ret.allok /\ nops < MaxOpsRead THEN {0, N_DIRECT, N_DIRECT + RPC, MAX_FILE_CLUSTERS} ELSE {}

\* a call made while every call before it has succeeded; its result
\* carries the cluster read, if any
CallRead(op, arg, r, out) ==
  /\ ret.allok
  /\ nops < MaxOpsRead
  /\ Perform(op, arg, [r EXCEPT !.out = out])

AllocInodeRead(type) ==
  CallRead("allocInode", <<sb.ihead>>, soAllocInode(FS, type, proc.uid, proc.gid), ZeroClust)

FreeInodeRead(n) == CallRead("freeInode", <<n>>, soFreeInode(FS, n), ZeroClust)

WriteFileClusterRead(nInode, clustInd) ==
  CallRead("writeFileCluster", <<nInode>>,
           soWriteFileCluster(FS, nInode, clustInd, DataClust), ZeroClust)

ReadFileCluster(nInode, clustInd, test) ==
  CallRead("readFileCluster", <<nInode, clustInd, test>>,
           soReadFileCluster(FS, nInode, clustInd, test),
           soReadFileCluster(FS, nInode, clustInd, test).out)

NextRead ==
  \/ \E type \in {INODE_FILE} : AllocInodeRead(type)
  \/ \E n \in InodesRead : FreeInodeRead(n)
  \/ \E n \in InodesRead, ci \in IndexesRead : WriteFileClusterRead(n, ci)
  \/ \E n \in InodesRead, ci \in IndexesRead, test \in UninitOutcomes :
       ReadFileCluster(n, ci, test)

SpecRead == InitDir /\ [][NextRead]_vars

\* the cluster the inode has at the index, as soHandleFileCluster GET
\* gives it
SlotOf(n, ci) == soHandleFileCluster(FS, n, ci, GET).out

\* a step of soReadFileCluster, its first test not lost to the unset
\* pointer, on an inode in use of a legal type and an index below
\* MAX_FILE_CLUSTERS
ReadStep ==
  /\ ret'.op = "readFileCluster" /\ ret'.arg[3] = "pass"
  /\ soQCheckInodeIU(FS, itable[ret'.arg[1]]) = OK
  /\ ret'.arg[2] < MAX_FILE_CLUSTERS

\* C24: for every inode in use of a legal type and every index below
\* MAX_FILE_CLUSTERS, readFileCluster succeeds and gives zeros when the
\* reference at the index is NULL_CLUSTER, otherwise the content of the
\* cluster referenced, as writeFileCluster last stored it.
C24_ReadBack ==
  [][ReadStep =>
       /\ ret'.err = OK
       /\ ret'.out = IF SlotOf(ret'.arg[1], ret'.arg[2]) = NULL_CLUSTER
                     THEN ZeroClust
                     ELSE dzone[SlotOf(ret'.arg[1], ret'.arg[2])]]_vars

\* the arguments of the call a rename step makes
RenDir == ret'.arg[1]
RenOld == ret'.arg[2]
RenNew == ret'.arg[4]

\* a step of soRenameDirEntry, no test lost to the unset pointer, on a
\* searchable directory the process may write, with a legal new name
RenStep ==
  /\ ret'.op = "renameDirEntry" /\ ret'.arg[3] = "pass"
  /\ Searchable(RenDir)
  /\ soAccessGranted(FS, RenDir, W, proc.uid, proc.gid).err = OK
  /\ LegalName(RenNew)

C25_WitnessDots ==
  /\ ret.op = "renameDirEntry" /\ ret.err = "EINVAL"
  /\ ret.arg[3] = "pass" /\ ret.arg[2] = <<DOT>> /\ ret.arg[4] = NameOf(1)

(* ------------------------------------------------------------------ *)
(* Path traversal (soGetDirEntryByPath).                               *)
(* ------------------------------------------------------------------ *)
\* the longest path, in characters
MAX_PATH == 5

\* the path before its last component, as dirname of libgen gives it
dirname(str) ==
  IF StripSlashes(str) = <<>> THEN (IF str = <<>> THEN <<DOT>> ELSE <<SLASH>>)
  ELSE IF \A k \in 1..Len(StripSlashes(str)) : StripSlashes(str)[k] # SLASH
  THEN <<DOT>>
  ELSE The({ IF StripSlashes(SubSeq(t, 1, Len(t) - Len(LastComponent(t)))) = <<>>
             THEN <<SLASH>>
             ELSE StripSlashes(SubSeq(t, 1, Len(t) - Len(LastComponent(t))))
           : t \in {StripSlashes(str)} })

\* a cluster holding the path a symbolic link stands for
SymClust(path) == [kind |-> "sym", de |-> path, ref |-> <<>>]

\* the string read from the start of a cluster: the path of a symbolic
\* link, the name of the first entry of a directory cluster, nothing in a
\* cluster of zeros
StrView(cl) ==
  IF cl.kind = "sym" THEN cl.de
  ELSE IF cl.kind = "dir" THEN CStr(cl.de[0].name)
  ELSE <<>>

\* the result of a traversal: the file system, the error, the two inode
\* numbers and the static variables nSymLinks and oldNInodeDir
NoPair == [nInodeDir |-> NULL_INODE, nInodeEnt |-> NULL_INODE]

TRes(s, e, nInodeDir, nInodeEnt, nSymLinks, oldNInodeDir) ==
  [st |-> s, err |-> e,
   out |-> IF e = OK THEN [nInodeDir |-> nInodeDir, nInodeEnt |-> nInodeEnt]
           ELSE NoPair,
   nSymLinks |-> nSymLinks, oldNInodeDir |-> oldNInodeDir]

RECURSIVE soTraversePath(_, _, _, _, _, _, _)

\* the entry p_name looked up in the directory pr.out.nInodeEnt, and the
\* symbolic link followed if the entry is one
soTraversePathEntry(pr, p_name, uid, gid, u) ==
  LET nInodeDir == pr.out.nInodeEnt
      rd == soReadInode(pr.st, nInodeDir, IUIN)
      ag == soAccessGranted(rd.st, nInodeDir, X, uid, gid)
  IN  IF rd.err # OK THEN TRes(rd.st, rd.err, 0, 0, pr.nSymLinks, pr.oldNInodeDir)
      ELSE IF ag.err # OK THEN TRes(ag.st, ag.err, 0, 0, pr.nSymLinks, pr.oldNInodeDir)
      ELSE
        The({ IF g.err # OK
              THEN TRes(g.st, g.err, 0, 0, pr.nSymLinks, pr.oldNInodeDir)
              ELSE
                LET nInodeEnt == g.out.nInodeEnt
                    re == soReadInode(g.st, nInodeEnt, IUIN)
                    ax == soAccessGranted(re.st, nInodeEnt, X, uid, gid)
                IN  IF re.err # OK
                    THEN TRes(re.st, re.err, 0, 0, pr.nSymLinks, pr.oldNInodeDir)
                    ELSE IF ~HasBit(re.out.mode, INODE_SYMLINK)
                    THEN TRes(re.st, OK, nInodeDir, nInodeEnt,
                              pr.nSymLinks, pr.oldNInodeDir)
                    ELSE IF pr.nSymLinks >= 1
                    THEN TRes(re.st, "ELOOP", 0, 0, pr.nSymLinks, pr.oldNInodeDir)
                    ELSE IF ax.err # OK
                    THEN TRes(ax.st, ax.err, 0, 0, pr.nSymLinks + 1, pr.oldNInodeDir)
                    ELSE
                      The({ IF c.err # OK
                            THEN TRes(c.st, c.err, 0, 0,
                                      pr.nSymLinks + 1, pr.oldNInodeDir)
                            ELSE IF Len(StrView(c.out)) > MAX_PATH
                            THEN TRes(c.st, "ENAMETOOLONG", 0, 0,
                                      pr.nSymLinks + 1, pr.oldNInodeDir)
                            ELSE soTraversePath(c.st, StrView(c.out),
                                                pr.nSymLinks + 1, nInodeDir,
                                                uid, gid, u)
                          : c \in {soReadFileCluster(ax.st, nInodeEnt, 0, u.test)} })
            : g \in {soGetDirEntryByName(ag.st, nInodeDir, p_name, uid, gid, u)} })

soTraversePath(s, ePath, nSymLinks, oldNInodeDir, uid, gid, u) ==
  IF Len(basename(ePath)) > MAX_NAME
  THEN TRes(s, "ENAMETOOLONG", 0, 0, nSymLinks, oldNInodeDir)
  ELSE IF nSymLinks = 0 /\ dirname(ePath)[1] # SLASH
  THEN TRes(s, "ERELPATH", 0, 0, nSymLinks, oldNInodeDir)
  ELSE
    The({ IF pr.err # OK THEN pr
          ELSE soTraversePathEntry(pr,
                 IF basename(ePath) = <<SLASH>> THEN <<DOT>> ELSE basename(ePath),
                 uid, gid, u)
        : pr \in {IF dirname(ePath) = <<SLASH>>
                  THEN TRes(s, OK, 0, 0, nSymLinks, oldNInodeDir)
                  ELSE IF dirname(ePath) = <<DOT>>
                  THEN TRes(s, OK, 0, oldNInodeDir, nSymLinks, oldNInodeDir)
                  ELSE soTraversePath(s, dirname(ePath), nSymLinks, oldNInodeDir,
                                      uid, gid, u)} })

soGetDirEntryByPath(s, ePath, nSymLinks, oldNInodeDir, uid, gid, u) ==
  IF Len(ePath) > MAX_PATH
  THEN TRes(s, "ENAMETOOLONG", 0, 0, nSymLinks, oldNInodeDir)
  ELSE soTraversePath(s, ePath, 0, oldNInodeDir, uid, gid, u)

(* ------------------------------------------------------------------ *)
(* Paths looked up on devices holding a directory, a file and links.   *)
(* ------------------------------------------------------------------ *)
\* inodes and data clusters of the devices explored
ITotalPath == 6
DZoneTotalPath == 8

\* lookups made in a row
MaxOpsPath == 2

\* the inodes of the devices, in the order soAllocInode hands them out:
\* the directory DirInode, the file FileInode, a symbolic link, a spare
\* file and a second symbolic link
LinkInode == 3
SpareInode == 4
Link2Inode == 5

\* a path made of the names of components, from the root
RECURSIVE PathOf(_)
PathOf(names) ==
  IF names = <<>> THEN <<>> ELSE <<SLASH>> \o Head(names) \o PathOf(Tail(names))

\* the paths the symbolic links stand for: the file, each of the links,
\* by name and from the root, the directory, and a name no entry has
Targets ==
  {NameOf(1), NameOf(2), NameOf(3), NameOf(4),
   PathOf(<<NameOf(0), NameOf(1)>>), PathOf(<<NameOf(0), NameOf(2)>>),
   PathOf(<<NameOf(0)>>)}

\* the clusters of the directory: the file under NameOf(1), the links
\* under NameOf(2) and NameOf(3)
PathClust(i) ==
  DirClust([j \in 0..(DPC - 1) |->
              IF (i * DPC) + j = 0 THEN DirEntry(Str(<<DOT>>), DirInode)
              ELSE IF (i * DPC) + j = 1 THEN DirEntry(Str(<<DOT, DOT>>), 0)
              ELSE IF (i * DPC) + j = 2 THEN DirEntry(Str(NameOf(1)), FileInode)
              ELSE IF (i * DPC) + j = 3 THEN DirEntry(Str(NameOf(2)), LinkInode)
              ELSE IF (i * DPC) + j = 4 THEN DirEntry(Str(NameOf(3)), Link2Inode)
              ELSE CleanEntry])

RECURSIVE Allocated(_, _)
\* the device after inodes of the types given were allocated in a row
Allocated(s, types) ==
  IF types = <<>> THEN s
  ELSE Allocated(soAllocInode(s, Head(types), 1, 1).st, Tail(types))

\* the device: formatted, the five inodes allocated, the clusters of the
\* directory and of the links written, the spare file freed or not, and
\* the counts and the permissions of the inodes set
PreparedPath(t1, t2, perm, spare) ==
  The({ [w EXCEPT
           !.dzone[0] = RootClust(FALSE),
           !.itable[0].refcount = 3,
           !.itable[DirInode].mode = INODE_DIR + INODE_PERM_ALL,
           !.itable[DirInode].refcount = 2,
           !.itable[DirInode].size = 2 * CLUSTER_SIZE,
           !.itable[FileInode].refcount = 1,
           !.itable[LinkInode].mode = INODE_SYMLINK + perm,
           !.itable[LinkInode].refcount = 1,
           !.itable[LinkInode].size = Len(t1),
           !.itable[Link2Inode].mode = INODE_SYMLINK + perm,
           !.itable[Link2Inode].refcount = 1,
           !.itable[Link2Inode].size = Len(t2)]
      : w \in {IF spare THEN w4.st ELSE soFreeInode(w4.st, SpareInode).st
               : w4 \in {soWriteFileCluster(w3.st, Link2Inode, 0, SymClust(t2))
                         : w3 \in {soWriteFileCluster(w2.st, LinkInode, 0, SymClust(t1))
                                   : w2 \in {soWriteFileCluster(w1.st, DirInode, 1, PathClust(1))
                                             : w1 \in {soWriteFileCluster(
                                                         Allocated(Formatted(ITotalPath, DZoneTotalPath, 1, 1),
                                                                   <<INODE_DIR, INODE_FILE, INODE_SYMLINK,
                                                                     INODE_FILE, INODE_SYMLINK>>),
                                                         DirInode, 0, PathClust(0))} } } } } })

InitPath ==
  \E t1 \in Targets, t2 \in Targets, perm \in {0, INODE_PERM_ALL}, spare \in BOOLEAN :
    /\ Holds(PreparedPath(t1, t2, perm, spare))
    /\ proc = [uid |-> 1, gid |-> 1, nSymLinks |-> 0, oldNInodeDir |-> 0]
    /\ nops = 0
    /\ ret = [op |-> "mkfs", err |-> OK, out |-> NoPair, arg |-> <<>>, allok |-> TRUE]

\* the paths looked up: the root, the directory, the file, the two links,
\* a name no entry has, a path through a link, a relative path, and a
\* path of more than MAX_PATH characters
Paths ==
  {<<SLASH>>, PathOf(<<NameOf(0)>>),
   PathOf(<<NameOf(0), NameOf(1)>>), PathOf(<<NameOf(0), NameOf(2)>>),
   PathOf(<<NameOf(0), NameOf(3)>>), PathOf(<<NameOf(0), NameOf(4)>>),
   PathOf(<<NameOf(2), NameOf(1)>>), NameOf(1),
   PathOf(<<NameOf(0), NameOf(0), NameOf(0)>>)}

GetDirEntryByPath(ePath, test) ==
  /\ nops < MaxOpsPath
  /\ \E r \in {soGetDirEntryByPath(FS, ePath, proc.nSymLinks, proc.oldNInodeDir,
                                    proc.uid, proc.gid, [test |-> test, j |-> DPC])} :
       /\ Commit(r.st)
       /\ Returned("getDirEntryByPath", <<ePath, test>>, r)
       /\ proc' = [proc EXCEPT !.nSymLinks = r.nSymLinks,
                               !.oldNInodeDir = r.oldNInodeDir]

NextPath ==
  \E ePath \in Paths, test \in UninitOutcomes : GetDirEntryByPath(ePath, test)

SpecPath == InitPath /\ [][NextPath]_vars

\* the path a lookup step is made on
PathArg == ret'.arg[1]

\* the inodes the entries in use of the directory n have under the name
InodesNamed(n, name) == {e[2].nInode : e \in Named(FS, n, name)}

\* the path a symbolic link stands for
TargetOf(n) ==
  IF itable[n].d[0] = NULL_CLUSTER THEN <<>> ELSE StrView(dzone[itable[n].d[0]])

\* the inode is in use as a symbolic link
IsLink(n) == soQCheckInodeIU(FS, itable[n]) = OK /\ TypeOf(itable[n].mode) = INODE_SYMLINK

\* the symbolic links of the directory DirInode that the path names as
\* its last component and that the process may follow
LinksAt(path) ==
  {n \in DOMAIN itable :
     /\ IsLink(n)
     /\ soAccessGranted(FS, n, X, proc.uid, proc.gid).err = OK
     /\ \E name \in {NameOf(2), NameOf(3)} :
          /\ path = PathOf(<<NameOf(0), name>>)
          /\ n \in InodesNamed(DirInode, name)}

\* the entries of the directory DirInode a path read from a link of it
\* leads to: a name is taken in the directory, a path from the root must
\* name the directory first
LedTo(target) ==
  IF LegalName(target) THEN InodesNamed(DirInode, target)
  ELSE UNION {IF target = PathOf(<<NameOf(0), name>>)
              THEN InodesNamed(DirInode, name) ELSE {}
             : name \in {NameOf(1), NameOf(2), NameOf(3)}}

\* a step of soGetDirEntryByPath with no test lost to the unset pointer
PathStep == ret'.op = "getDirEntryByPath" /\ ret'.arg[2] = "pass"

\* C26: a lookup that meets a second symbolic link, the one the first link
\* leads to, fails with ELOOP; and the count of links is taken up at zero
\* by every call: a lookup through one link only does not fail with ELOOP
\* after an earlier lookup has met a link.
C26_OneLink ==
  [][PathStep =>
       \A n \in LinksAt(PathArg) :
         /\ (\E m \in LedTo(TargetOf(n)) : IsLink(m)) => ret'.err = "ELOOP"
         /\ (/\ proc.nSymLinks >= 1
             /\ LedTo(TargetOf(n)) # {}
             /\ \A m \in LedTo(TargetOf(n)) : ~IsLink(m)) => ret'.err # "ELOOP"]_vars

\* C27: a lookup of a path from the root whose last component is a
\* symbolic link standing for the name of an entry of the same directory
\* that is not a symbolic link succeeds, and gives the inode of that entry
\* and the directory holding it.
C27_RelativeLink ==
  [][PathStep =>
       \A n \in LinksAt(PathArg) :
         (/\ LegalName(TargetOf(n))
          /\ \E m \in InodesNamed(DirInode, TargetOf(n)) :
               soQCheckInodeIU(FS, itable[m]) = OK /\ ~IsLink(m)) =>
           /\ ret'.err = OK
           /\ ret'.out.nInodeDir = DirInode
           /\ ret'.out.nInodeEnt \in InodesNamed(DirInode, TargetOf(n))]_vars

(* ------------------------------------------------------------------ *)
(* The storage areas of sofs_basicoper and the device under them.      *)
(* ------------------------------------------------------------------ *)
\* blocks of a cluster
BLOCKS_PER_CLUSTER == 4

\* operations explored on the storage areas
MaxOpsCache == 3

\* what soReadCacheBlock, soWriteCacheBlock and their cluster versions
\* return: 0 or the error of the device
IOErrors == {"EIO", "EBADF"}

IOOutcomes == {OK} \cup IOErrors

\* the six storage areas
Slots == {"SB", "InT", "CTInMT", "BMapT", "SIRef", "DRef"}

\* the fields of the superblock that locate the tables and the data zone,
\* as fillInSuperBlock computes them
sbGeometry(iblktotal, ctinmblktotal, fcblktotal, nclusttotal) ==
  [itable_start |-> 1,
   itable_size |-> iblktotal,
   ciutable_start |-> 1 + iblktotal,
   ciutable_size |-> ctinmblktotal,
   fctable_start |-> 1 + iblktotal + ctinmblktotal,
   fctable_size |-> fcblktotal,
   dzone_start |-> 1 + iblktotal + ctinmblktotal + fcblktotal,
   dzone_total |-> nclusttotal]

\* block 0 of the device explored, and a block 0 of zeros
Geometry == sbGeometry(ITableBlocks, 1, 1, 2)

ZeroGeometry == [f \in DOMAIN Geometry |-> 0]

\* the static variables of sofs_basicoper when the process starts: sb is
\* the storage area of the superblock, a static object, hence of zeros
Statics ==
  [sb |-> ZeroGeometry, sbLoaded |-> 0, sbError |-> OK,
   nBlkInTLoaded |-> -1, intError |-> OK,
   nBlkCTInMTLoaded |-> -1, ctinmtError |-> OK,
   nBlkBMapTLoaded |-> -1, bmaptError |-> OK,
   nClustSIRef |-> 0, sircError |-> OK,
   nClustDRef |-> 0, drcError |-> OK]

\* an access to the device: the storage area it fills or empties, its
\* direction, the physical number of its first block, what it returned
Rd(slot, n, stat) == [slot |-> slot, rw |-> "r", blk |-> n, stat |-> stat]

Wr(slot, n, stat) == [slot |-> slot, rw |-> "w", blk |-> n, stat |-> stat]

\* the outcome of a function: the static variables, block 0 of the device,
\* the value returned and the accesses made to the device
CRes(p, dev, err, io) == [p |-> p, dev |-> dev, err |-> err, io |-> io]

soLoadSuperBlock(p, dev, io) ==
  IF p.sbError # OK THEN CRes(p, dev, p.sbError, <<>>)
  ELSE IF p.sbLoaded = 1 THEN CRes(p, dev, OK, <<>>)
  ELSE IF io = OK
       THEN CRes([p EXCEPT !.sbLoaded = 1, !.sb = dev], dev, OK, <<Rd("SB", 0, io)>>)
       ELSE CRes([p EXCEPT !.sbLoaded = -1, !.sbError = io], dev, io, <<Rd("SB", 0, io)>>)

\* the test of soLoadSngIndRefClust and soLoadDirRefClust on nClust
BadClust(g, nClust) ==
  \/ nClust < g.dzone_start
  \/ (nClust - g.dzone_start) % BLOCKS_PER_CLUSTER # 0
  \/ nClust >= g.dzone_start + g.dzone_total * BLOCKS_PER_CLUSTER

\* block 0 after a cluster of the storage area buf is written at nClust:
\* the cluster that starts at block 0 covers the superblock
WrittenAt(dev, nClust) == IF nClust = 0 THEN ZeroGeometry ELSE dev

\* the storage areas that have been filled from the device, and the error
\* of the first access that failed on each storage area
Filled(r) ==
  {r.io[i].slot : i \in {j \in DOMAIN r.io : r.io[j].rw = "r" /\ r.io[j].stat = OK}}

FailedOn(r, k) == \E i \in DOMAIN r.io : r.io[i].slot = k /\ r.io[i].stat # OK

\* a call of a function of sofs_basicoper on a storage area
CacheCall(slot, kind, n, r) ==
  /\ nops < MaxOpsCache
  /\ proc' = r.p
  /\ sb' = r.dev
  /\ ret' = [op |-> kind, err |-> r.err, out |-> r.io, arg |-> <<slot, kind, n>>,
             allok |-> ret.allok /\ r.err = OK,
             loaded |-> ret.loaded \cup Filled(r),
             failed |-> [k \in Slots |-> IF ret.failed[k] = OK /\ FailedOn(r, k)
                                         THEN r.err ELSE ret.failed[k]]]
  /\ nops' = nops + 1
  /\ UNCHANGED <<itable, ctinmt, bmapt, dzone, sirc, drc>>

LoadSuperBlock(io) ==
  CacheCall("SB", "load", 0, soLoadSuperBlock(proc, sb, io))

StoreSuperBlock(io) ==
  CacheCall("SB", "store", 0,
    IF proc.sbError # OK THEN CRes(proc, sb, proc.sbError, <<>>)
    ELSE IF proc.sbLoaded = 0
         THEN CRes([proc EXCEPT !.sbLoaded = -1, !.sbError = "ELIBBAD"], sb, "ELIBBAD", <<>>)
    ELSE IF io = OK THEN CRes(proc, proc.sb, OK, <<Wr("SB", 0, io)>>)
    ELSE CRes([proc EXCEPT !.sbLoaded = -1, !.sbError = io], sb, io, <<Wr("SB", 0, io)>>))

LoadBlockInT(nBlk, io0, io) ==
  \E l \in {soLoadSuperBlock(proc, sb, io0)} :
    CacheCall("InT", "load", nBlk,
      IF l.err # OK THEN l
      ELSE IF nBlk >= l.p.sb.itable_size THEN CRes(l.p, sb, "EINVAL", l.io)
      ELSE IF l.p.intError # OK THEN CRes(l.p, sb, l.p.intError, l.io)
      ELSE IF nBlk = l.p.nBlkInTLoaded THEN CRes(l.p, sb, OK, l.io)
      ELSE IF io = OK
           THEN CRes([l.p EXCEPT !.nBlkInTLoaded = nBlk], sb, OK,
                     Append(l.io, Rd("InT", l.p.sb.itable_start + nBlk, io)))
           ELSE CRes([l.p EXCEPT !.nBlkInTLoaded = -1, !.intError = io], sb, io,
                     Append(l.io, Rd("InT", l.p.sb.itable_start + nBlk, io))))

StoreBlockInT(io) ==
  CacheCall("InT", "store", 0,
    IF proc.intError # OK THEN CRes(proc, sb, proc.intError, <<>>)
    ELSE IF proc.nBlkInTLoaded < 0
         THEN CRes([proc EXCEPT !.nBlkInTLoaded = -2, !.intError = "ELIBBAD"],
                   sb, "ELIBBAD", <<>>)
    ELSE IF io = OK
         THEN CRes(proc, sb, OK, <<Wr("InT", proc.sb.itable_start + proc.nBlkInTLoaded, io)>>)
    ELSE CRes([proc EXCEPT !.nBlkInTLoaded = -2, !.intError = io], sb, io,
              <<Wr("InT", proc.sb.itable_start + proc.nBlkInTLoaded, io)>>))

LoadBlockCTInMT(nBlk, io0, io) ==
  \E l \in {soLoadSuperBlock(proc, sb, io0)} :
    CacheCall("CTInMT", "load", nBlk,
      IF l.err # OK THEN l
      ELSE IF nBlk >= l.p.sb.ciutable_size THEN CRes(l.p, sb, "EINVAL", l.io)
      ELSE IF l.p.ctinmtError # OK THEN CRes(l.p, sb, l.p.ctinmtError, l.io)
      ELSE IF nBlk = l.p.nBlkCTInMTLoaded THEN CRes(l.p, sb, OK, l.io)
      ELSE IF io = OK
           THEN CRes([l.p EXCEPT !.nBlkCTInMTLoaded = nBlk], sb, OK,
                     Append(l.io, Rd("CTInMT", l.p.sb.ciutable_start + nBlk, io)))
           ELSE CRes([l.p EXCEPT !.nBlkCTInMTLoaded = -2, !.ctinmtError = io], sb, io,
                     Append(l.io, Rd("CTInMT", l.p.sb.ciutable_start + nBlk, io))))

StoreBlockCTInMT(io) ==
  CacheCall("CTInMT", "store", 0,
    IF proc.ctinmtError # OK THEN CRes(proc, sb, proc.ctinmtError, <<>>)
    ELSE IF proc.nBlkCTInMTLoaded < 0
         THEN CRes([proc EXCEPT !.nBlkCTInMTLoaded = -2, !.ctinmtError = "ELIBBAD"],
                   sb, "ELIBBAD", <<>>)
    ELSE IF io = OK
         THEN CRes(proc, sb, OK,
                   <<Wr("CTInMT", proc.sb.ciutable_start + proc.nBlkCTInMTLoaded, io)>>)
    ELSE CRes([proc EXCEPT !.nBlkCTInMTLoaded = -2, !.ctinmtError = io], sb, io,
              <<Wr("CTInMT", proc.sb.ciutable_start + proc.nBlkCTInMTLoaded, io)>>))

LoadBlockBMapT(nBlk, io0, io) ==
  \E l \in {soLoadSuperBlock(proc, sb, io0)} :
    CacheCall("BMapT", "load", nBlk,
      IF l.err # OK THEN l
      ELSE IF nBlk >= l.p.sb.fctable_size THEN CRes(l.p, sb, "EINVAL", l.io)
      ELSE IF l.p.bmaptError # OK THEN CRes(l.p, sb, l.p.bmaptError, l.io)
      ELSE IF nBlk = l.p.nBlkBMapTLoaded THEN CRes(l.p, sb, OK, l.io)
      ELSE IF io = OK
           THEN CRes([l.p EXCEPT !.nBlkBMapTLoaded = nBlk], sb, OK,
                     Append(l.io, Rd("BMapT", l.p.sb.fctable_start + nBlk, io)))
           ELSE CRes([l.p EXCEPT !.nBlkBMapTLoaded = -1, !.bmaptError = io], sb, io,
                     Append(l.io, Rd("BMapT", l.p.sb.fctable_start + nBlk, io))))

StoreBlockBMapT(io) ==
  CacheCall("BMapT", "store", 0,
    IF proc.bmaptError # OK THEN CRes(proc, sb, proc.bmaptError, <<>>)
    ELSE IF proc.nBlkBMapTLoaded < 0
         THEN CRes([proc EXCEPT !.nBlkBMapTLoaded = -2, !.bmaptError = "ELIBBAD"],
                   sb, "ELIBBAD", <<>>)
    ELSE IF io = OK
         THEN CRes(proc, sb, OK,
                   <<Wr("BMapT", proc.sb.fctable_start + proc.nBlkBMapTLoaded, io)>>)
    ELSE CRes([proc EXCEPT !.nBlkBMapTLoaded = -2, !.bmaptError = io], sb, io,
              <<Wr("BMapT", proc.sb.fctable_start + proc.nBlkBMapTLoaded, io)>>))

LoadSngIndRefClust(nClust, io0, io) ==
  \E l \in {soLoadSuperBlock(proc, sb, io0)} :
    CacheCall("SIRef", "load", nClust,
      IF l.err # OK THEN l
      ELSE IF BadClust(l.p.sb, nClust) THEN CRes(l.p, sb, "EINVAL", l.io)
      ELSE IF l.p.sircError # OK THEN CRes(l.p, sb, l.p.sircError, l.io)
      ELSE IF nClust = l.p.nClustSIRef THEN CRes(l.p, sb, OK, l.io)
      ELSE IF io = OK
           THEN CRes([l.p EXCEPT !.nClustSIRef = nClust], sb, OK,
                     Append(l.io, Rd("SIRef", nClust, io)))
           ELSE CRes([l.p EXCEPT !.nClustSIRef = -2, !.sircError = io], sb, io,
                     Append(l.io, Rd("SIRef", nClust, io))))

StoreSngIndRefClust(io) ==
  CacheCall("SIRef", "store", 0,
    IF proc.sircError # OK THEN CRes(proc, sb, proc.sircError, <<>>)
    ELSE IF proc.nClustSIRef < 0
         THEN CRes([proc EXCEPT !.nClustSIRef = -2, !.sircError = "ELIBBAD"],
                   sb, "ELIBBAD", <<>>)
    ELSE IF io = OK
         THEN CRes(proc, WrittenAt(sb, proc.nClustSIRef), OK,
                   <<Wr("SIRef", proc.nClustSIRef, io)>>)
    ELSE CRes([proc EXCEPT !.nClustSIRef = -2, !.sircError = io], sb, io,
              <<Wr("SIRef", proc.nClustSIRef, io)>>))

LoadDirRefClust(nClust, io0, io) ==
  \E l \in {soLoadSuperBlock(proc, sb, io0)} :
    CacheCall("DRef", "load", nClust,
      IF l.err # OK THEN l
      ELSE IF BadClust(l.p.sb, nClust) THEN CRes(l.p, sb, "EINVAL", l.io)
      ELSE IF l.p.drcError # OK THEN CRes(l.p, sb, l.p.drcError, l.io)
      ELSE IF nClust = l.p.nClustDRef THEN CRes(l.p, sb, OK, l.io)
      ELSE IF io = OK
           THEN CRes([l.p EXCEPT !.nClustDRef = nClust], sb, OK,
                     Append(l.io, Rd("DRef", nClust, io)))
           ELSE CRes([l.p EXCEPT !.nClustDRef = -2, !.drcError = io], sb, io,
                     Append(l.io, Rd("DRef", nClust, io))))

\* when nothing was read, the value returned is sircError, not drcError
StoreDirRefClust(io) ==
  CacheCall("DRef", "store", 0,
    IF proc.drcError # OK THEN CRes(proc, sb, proc.drcError, <<>>)
    ELSE IF proc.nClustDRef < 0
         THEN CRes([proc EXCEPT !.nClustDRef = -2, !.drcError = "ELIBBAD"],
                   sb, proc.sircError, <<>>)
    ELSE IF io = OK
         THEN CRes(proc, WrittenAt(sb, proc.nClustDRef), OK,
                   <<Wr("DRef", proc.nClustDRef, io)>>)
    ELSE CRes([proc EXCEPT !.nClustDRef = -2, !.drcError = io], sb, io,
              <<Wr("DRef", proc.nClustDRef, io)>>))

\* the process starts over a formatted device
InitCache ==
  /\ sb = Geometry
  /\ itable = fillInINT(ITableBlocks * IPB, 0, 0)
  /\ ctinmt = fillInCIT(Geometry.dzone_total)
  /\ bmapt = fillInBitMapT(Geometry.dzone_total)
  /\ dzone = fillInDZone(Geometry.dzone_total)
  /\ sirc = NoSlot
  /\ drc = NoSlot
  /\ proc = Statics
  /\ nops = 0
  /\ ret = [op |-> "open", err |-> OK, out |-> <<>>, arg |-> <<"SB", "open", 0>>,
            allok |-> TRUE, loaded |-> {}, failed |-> [k \in Slots |-> OK]]

\* the blocks and the clusters asked for: those of the tables and of the
\* data zone, one past the end of a table, a cluster that starts inside
\* another one, the first cluster past the data zone
BlocksAsked == 0..ITableBlocks

ClustersAsked ==
  {Geometry.dzone_start + k : k \in {0, 1, BLOCKS_PER_CLUSTER,
                                     Geometry.dzone_total * BLOCKS_PER_CLUSTER}}

NextCache ==
  \/ \E io \in IOOutcomes : LoadSuperBlock(io)
  \/ \E io \in IOOutcomes : StoreSuperBlock(io)
  \/ \E nBlk \in BlocksAsked, io0 \in IOOutcomes, io \in IOOutcomes :
       LoadBlockInT(nBlk, io0, io)
  \/ \E io \in IOOutcomes : StoreBlockInT(io)
  \/ \E nBlk \in BlocksAsked, io0 \in IOOutcomes, io \in IOOutcomes :
       LoadBlockCTInMT(nBlk, io0, io)
  \/ \E io \in IOOutcomes : StoreBlockCTInMT(io)
  \/ \E nBlk \in BlocksAsked, io0 \in IOOutcomes, io \in IOOutcomes :
       LoadBlockBMapT(nBlk, io0, io)
  \/ \E io \in IOOutcomes : StoreBlockBMapT(io)
  \/ \E nClust \in ClustersAsked, io0 \in IOOutcomes, io \in IOOutcomes :
       LoadSngIndRefClust(nClust, io0, io)
  \/ \E io \in IOOutcomes : StoreSngIndRefClust(io)
  \/ \E nClust \in ClustersAsked, io0 \in IOOutcomes, io \in IOOutcomes :
       LoadDirRefClust(nClust, io0, io)
  \/ \E io \in IOOutcomes : StoreDirRefClust(io)

SpecCache == InitCache /\ [][NextCache]_vars

\* the storage area the step is made on
SlotArg == ret'.arg[1]

\* C28: once a load or a store has failed on a storage area with an error
\* of the device, every later load, of any block or cluster, and every later
\* store on that storage area returns that same error and makes no access
\* to the device.
C28_Sticky ==
  [][\A k \in Slots :
       (ret.failed[k] # OK /\ SlotArg = k)
         => (ret'.err = ret.failed[k] /\ ret'.out = <<>>)]_vars

\* C29: a store on a storage area that has never been filled, and on which
\* no operation has failed, returns ELIBBAD and writes nothing to the device.
C29_StoreEmpty ==
  [][\A k \in Slots :
       (SlotArg = k /\ ret'.op = "store" /\ k \notin ret.loaded /\ ret.failed[k] = OK)
         => (ret'.err = "ELIBBAD" /\ ret'.out = <<>> /\ sb' = sb)]_vars

(* ------------------------------------------------------------------ *)
(* The architecture of the file system computed by mkfs_sofs13.        *)
(* ------------------------------------------------------------------ *)
\* the constants of the build that the test scripts were written for
\* (ex5.sh: 524 blocks asked with 8 inodes give 32 inodes; ex12.sh: 100
\* blocks hold 72 inodes): 8 inodes, 4096 bits and 128 references a block
Build ==
  [IPB |-> 8, BLOCKS_PER_CLUSTER |-> BLOCKS_PER_CLUSTER,
   BITS_PER_BLOCK |-> 4096, RPB |-> 128]

\* the unsigned words of the model wrap at WordSize, as the uint32_t of the
\* program wrap at 2^32
WordSize == 2 ^ 24

Wrap(x) == x % WordSize

\* main of mkfs_sofs13 without its final adjustment of the inode table
mainLayout_noAdjust(ntotal, itotal, b) ==
  LET asked == IF itotal = 0 THEN ntotal \div 8 ELSE itotal
      iblktotal == CeilDiv(asked, b.IPB)
      step1 == ntotal - 1 - iblktotal
      tmp == Wrap(step1) \div b.BLOCKS_PER_CLUSTER
      step2 == ntotal - 1 - iblktotal - CeilDiv(tmp, b.BITS_PER_BLOCK)
                 - CeilDiv(tmp, b.RPB)
      nclust2 == Wrap(step2) \div b.BLOCKS_PER_CLUSTER
      fcblktotal == CeilDiv(nclust2, b.BITS_PER_BLOCK)
      ctinmblktotal == CeilDiv(nclust2, b.RPB)
      tested == nclust2 % b.BITS_PER_BLOCK # 0 /\ nclust2 % b.RPB # 0
      step3 == ntotal - 1 - iblktotal - fcblktotal - ctinmblktotal
                 - Wrap(nclust2 * b.BLOCKS_PER_CLUSTER)
      nclusttotal ==
        IF tested /\ Wrap(step3) >= b.BLOCKS_PER_CLUSTER
        THEN Wrap(nclust2 + 1) ELSE nclust2
  IN  [itotal |-> Wrap(iblktotal * b.IPB), iblktotal |-> iblktotal,
       nclusttotal |-> nclusttotal, fcblktotal |-> fcblktotal,
       ctinmblktotal |-> ctinmblktotal,
       wrapped |-> step1 < 0 \/ step2 < 0 \/ (tested /\ step3 < 0)]

\* main of mkfs_sofs13: the parameters of the architecture for a device of
\* ntotal blocks and the number of inodes asked for, 0 when none is asked;
\* wrapped tells that one of the subtractions has gone below zero
mainLayout(ntotal, itotal, b) ==
  LET asked == IF itotal = 0 THEN ntotal \div 8 ELSE itotal
      iblktotal == CeilDiv(asked, b.IPB)
      step1 == ntotal - 1 - iblktotal
      tmp == Wrap(step1) \div b.BLOCKS_PER_CLUSTER
      step2 == ntotal - 1 - iblktotal - CeilDiv(tmp, b.BITS_PER_BLOCK)
                 - CeilDiv(tmp, b.RPB)
      nclust2 == Wrap(step2) \div b.BLOCKS_PER_CLUSTER
      fcblktotal == CeilDiv(nclust2, b.BITS_PER_BLOCK)
      ctinmblktotal == CeilDiv(nclust2, b.RPB)
      tested == nclust2 % b.BITS_PER_BLOCK # 0 /\ nclust2 % b.RPB # 0
      step3 == ntotal - 1 - iblktotal - fcblktotal - ctinmblktotal
                 - Wrap(nclust2 * b.BLOCKS_PER_CLUSTER)
      nclusttotal ==
        IF tested /\ Wrap(step3) >= b.BLOCKS_PER_CLUSTER
        THEN Wrap(nclust2 + 1) ELSE nclust2
      final == ntotal - 1 - fcblktotal - ctinmblktotal
                 - Wrap(nclusttotal * b.BLOCKS_PER_CLUSTER)
  IN  [itotal |-> Wrap(Wrap(final) * b.IPB), iblktotal |-> Wrap(final),
       nclusttotal |-> nclusttotal, fcblktotal |-> fcblktotal,
       ctinmblktotal |-> ctinmblktotal,
       wrapped |-> step1 < 0 \/ step2 < 0 \/ (tested /\ step3 < 0) \/ final < 0]

\* the devices formatted and the numbers of inodes asked for; no
\* subtraction of main goes below zero on them
MinBlocks == 90

MaxBlocks == 104

MaxInodes == 72

\* a device of ntotal blocks is created; itotal inodes will be asked for
InitFormat ==
  \E ntotal \in MinBlocks..MaxBlocks, itotal \in 0..MaxInodes :
    /\ sb = <<>>
    /\ itable = <<>>
    /\ ctinmt = <<>>
    /\ bmapt = <<>>
    /\ dzone = <<>>
    /\ sirc = NoSlot
    /\ drc = NoSlot
    /\ proc = [uid |-> 1, gid |-> 1, ntotal |-> ntotal, itotal |-> itotal]
    /\ nops = 0
    /\ ret = [op |-> "createEmptyFile", err |-> OK, out |-> <<>>,
              arg |-> <<ntotal>>, allok |-> TRUE]

\* mkfs_sofs13 -i itotal: the superblock, the tables and the data zone are
\* filled in from the parameters of the architecture
Format ==
  /\ ret.op = "createEmptyFile"
  /\ \E lay \in {mainLayout(proc.ntotal, proc.itotal, Build)} :
       /\ sb' = [fillInSuperBlock(lay.itotal, lay.nclusttotal) EXCEPT
                   !.itable_size = lay.iblktotal, !.fctable_size = lay.fcblktotal]
       /\ itable' = fillInINT(lay.itotal, proc.uid, proc.gid)
       /\ ctinmt' = fillInCIT(lay.nclusttotal)
       /\ bmapt' = fillInBitMapT(lay.nclusttotal)
       /\ dzone' = fillInDZone(lay.nclusttotal)
       /\ ret' = [op |-> "mkfs", err |-> OK, out |-> lay,
                  arg |-> <<proc.ntotal, proc.itotal>>, allok |-> TRUE]
  /\ nops' = nops + 1
  /\ UNCHANGED <<sirc, drc, proc>>

NextFormat == Format

SpecFormat == InitFormat /\ [][NextFormat]_vars

\* the number of inodes asked for, rounded up to a whole block of inodes
Rounded(ntotal, itotal) ==
  CeilDiv(IF itotal = 0 THEN ntotal \div 8 ELSE itotal, Build.IPB) * Build.IPB

\* the free inodes 1 .. n form the list, in this order, and inode 0 is the
\* root directory, of one cluster
Installed(n) ==
  /\ sb.itotal = n + 1
  /\ sb.ifree = n
  /\ sb.ihead = 1
  /\ sb.itail = n
  /\ \A k \in 1..n :
       /\ itable[k].mode = INODE_FREE
       /\ itable[k].vD1 = (IF k = 1 THEN NULL_INODE ELSE k - 1)
       /\ itable[k].vD2 = (IF k = n THEN NULL_INODE ELSE k + 1)
  /\ sb.dzone_free = sb.dzone_total - 1
  /\ itable[0].mode = INODE_DIR + INODE_PERM_ALL
  /\ itable[0].refcount = 2
  /\ itable[0].size = CLUSTER_SIZE
  /\ itable[0].d[0] = 0
  /\ \A k \in 1..(N_DIRECT - 1) : itable[0].d[k] = NULL_CLUSTER
  /\ itable[0].i1 = NULL_CLUSTER
  /\ itable[0].i2 = NULL_CLUSTER

\* C30 as stated: a device of 100 blocks formatted with 56 inodes asked for
\* has 56 inodes, and in general the number of inodes is the number asked
\* for, rounded up to a whole block of inodes.
C30_AsStated ==
  ret.op = "mkfs" =>
    /\ sb.itotal = Rounded(ret.arg[1], ret.arg[2])
    /\ Installed(sb.itotal - 1)
    /\ ret.arg = <<100, 56>> => Installed(55)

\* C30: a device of 100 blocks formatted with 56 inodes asked for has 72
\* inodes: ifree = 71, ihead = 1, itail = 71, the free list is 1, 2, ..., 71,
\* dzone_free = dzone_total - 1, and inode 0 is the root directory with
\* refcount 2, one cluster of size, d[0] = 0 and every other reference
\* NULL_CLUSTER. In general the inode table takes every block left by the
\* superblock, the two tables of the data zone and the data zone: the number
\* of inodes is never less than the number asked for rounded up to a whole
\* block of inodes, and the free list holds all the inodes but the root.
C30_Format ==
  ret.op = "mkfs" =>
    /\ sb.itotal =
         Build.IPB * (ret.arg[1] - 1 - ret.out.fcblktotal - ret.out.ctinmblktotal
                        - sb.dzone_total * BLOCKS_PER_CLUSTER)
    /\ sb.itotal >= Rounded(ret.arg[1], ret.arg[2])
    /\ Installed(sb.itotal - 1)
    /\ ret.arg = <<100, 56>> => Installed(71)

C30_Witness ==
  /\ ret.op = "mkfs"
  /\ ret.arg = <<100, 56>>
  /\ sb.itotal = 72
  /\ sb.dzone_total = 22

(* ------------------------------------------------------------------ *)
(* Conversions of references, with their tests (sofs_basicoper).       *)
(* ------------------------------------------------------------------ *)
\* clusters of the largest data zone converted: three blocks of bitmap
DZoneTotalConv == 2 * BITS_PER_BLOCK + 3

\* conversions called
MaxOpsConv == 1

\* what the locations pointed to hold when a conversion fails
NoConv == [nBlk |-> 0, offset |-> 0]

\* soConvertBMapTRef without the bit offset
soConvertBMapTRef_bits(s, nBlk, byteOff, bitOff) ==
  IF nBlk >= s.sb.fctable_size \/ byteOff >= BLOCK_SIZE \/ bitOff >= 8
  THEN Res(s, "EINVAL", NoConv)
  ELSE IF (BLOCK_SIZE * nBlk + byteOff) * 8 >= s.sb.dzone_total
       THEN Res(s, "EINVAL", NoConv)
  ELSE Res(s, OK, (BLOCK_SIZE * nBlk + byteOff) * 8)

soConvertBMapTRef(s, nBlk, byteOff, bitOff) ==
  IF nBlk >= s.sb.fctable_size \/ byteOff >= BLOCK_SIZE \/ bitOff >= 8
  THEN Res(s, "EINVAL", NoConv)
  ELSE IF (BLOCK_SIZE * nBlk + byteOff) * 8 + bitOff >= s.sb.dzone_total
       THEN Res(s, "EINVAL", NoConv)
  ELSE Res(s, OK, (BLOCK_SIZE * nBlk + byteOff) * 8 + bitOff)

soConvertBPIDC(s, p) ==
  IF p >= MAX_FILE_SIZE THEN Res(s, "EINVAL", NoConv)
  ELSE Res(s, OK, [clustInd |-> p \div BSLPC, offset |-> p % BSLPC])

\* soConvertRefInT and soConvertRefBMapT: the test on the reference, then
\* the conversion
ConvertRefInT(nInode) ==
  /\ nops < MaxOpsConv
  /\ Perform("convertRefInT", <<nInode>>,
             IF nInode >= sb.itotal THEN Res(FS, "EINVAL", NoConv)
             ELSE Res(FS, OK, soConvertRefInT(nInode)))

ConvertRefBMapT(ref) ==
  /\ nops < MaxOpsConv
  /\ Perform("convertRefBMapT", <<ref>>,
             IF ref >= sb.dzone_total THEN Res(FS, "EINVAL", NoConv)
             ELSE Res(FS, OK, soConvertRefBMapT(ref)))

ConvertBMapTRef(nBlk, byteOff, bitOff) ==
  /\ nops < MaxOpsConv
  /\ Perform("convertBMapTRef", <<nBlk, byteOff, bitOff>>,
             soConvertBMapTRef(FS, nBlk, byteOff, bitOff))

ConvertBPIDC(p) ==
  /\ nops < MaxOpsConv
  /\ Perform("convertBPIDC", <<p>>, soConvertBPIDC(FS, p))

\* devices of one to ITableBlocks blocks of inodes and of every size of
\* data zone up to DZoneTotalConv
InitConv ==
  \E iblk \in 1..ITableBlocks, nclusttotal \in 1..DZoneTotalConv :
    mkfs(IPB * iblk, nclusttotal, 1, 1)

\* the values converted: every one in range, the first ones out of range
\* and the largest 32-bit value of the model
NextConv ==
  \/ \E nInode \in 0..(sb.itotal + 1) \cup {NULL_INODE} : ConvertRefInT(nInode)
  \/ \E ref \in 0..(sb.dzone_total + 1) \cup {NULL_CLUSTER} : ConvertRefBMapT(ref)
  \/ \E nBlk \in 0..sb.fctable_size, byteOff \in 0..BLOCK_SIZE, bitOff \in 0..8 :
       ConvertBMapTRef(nBlk, byteOff, bitOff)
  \/ \E p \in 0..(MAX_FILE_SIZE + 1) \cup {NULL_CLUSTER} : ConvertBPIDC(p)

SpecConv == InitConv /\ [][NextConv]_vars

\* C31: soConvertBPIDC gives, for every p < MAX_FILE_SIZE, clustInd and
\* offset with clustInd * BSLPC + offset = p, and fails with EINVAL for the
\* other p; soConvertBMapTRef takes what soConvertRefBMapT gives for every
\* ref < dzone_total back to ref; soConvertRefInT gives, for every
\* nInode < itotal, nBlk and offset with nBlk * IPB + offset = nInode; the
\* last two fail with EINVAL for the other references.
C31_Conversions ==
  /\ ret.op = "convertBPIDC" =>
       IF ret.arg[1] < MAX_FILE_SIZE
       THEN /\ ret.err = OK
            /\ ret.out.clustInd * BSLPC + ret.out.offset = ret.arg[1]
            /\ ret.out.offset < BSLPC
       ELSE ret.err = "EINVAL"
  /\ ret.op = "convertRefBMapT" =>
       IF ret.arg[1] < sb.dzone_total
       THEN /\ ret.err = OK
            /\ ret.out.byteOff < BLOCK_SIZE
            /\ ret.out.bitOff < 8
            /\ \E back \in {soConvertBMapTRef(FS, ret.out.nBlk, ret.out.byteOff,
                                              ret.out.bitOff)} :
                 back.err = OK /\ back.out = ret.arg[1]
       ELSE ret.err = "EINVAL"
  /\ ret.op = "convertRefInT" =>
       IF ret.arg[1] < sb.itotal
       THEN /\ ret.err = OK
            /\ ret.out.nBlk * IPB + ret.out.offset = ret.arg[1]
            /\ ret.out.offset < IPB
       ELSE ret.err = "EINVAL"

\* a reference of the third block of the bitmap, at a bit that is not the
\* first of its byte, has been converted
C31_Witness ==
  /\ ret.op = "convertRefBMapT"
  /\ ret.err = OK
  /\ ret.out.nBlk = 2
  /\ ret.out.bitOff # 0

(* ------------------------------------------------------------------ *)
(* A reference allocated and released at once.                         *)
(* ------------------------------------------------------------------ *)
\* calls explored before and with the allocation and its release
MaxOpsUndo == 5

\* what the allocation of a reference may change, as it is before a call,
\* and whether every free cluster is clean (mapped to no inode) then
Snap ==
  [itable |-> itable, ctinmt |-> ctinmt, dzone_free |-> sb.dzone_free,
   clean |-> \A c \in DOMAIN ctinmt :
               soQCheckStatDC(FS, c) = "FREE_CLT" => ctinmt[c] = NULL_INODE]

\* a call made while every call before it has succeeded; what it found is
\* remembered for the next call
CallUndo(op, arg, r) ==
  /\ ret.allok
  /\ nops < MaxOpsUndo
  /\ Commit(r.st)
  /\ ret' = [op |-> op, err |-> r.err, out |-> r.out, arg |-> arg,
             allok |-> r.err = OK, snap |-> Snap]
  /\ nops' = nops + 1
  /\ UNCHANGED proc

AllocInodeUndo(type) ==
  CallUndo("allocInode", <<>>, soAllocInode(FS, type, proc.uid, proc.gid))

HandleFileClusterUndo(nInode, clustInd, op) ==
  CallUndo("handleFileCluster", <<nInode, clustInd, op>>,
           soHandleFileCluster(FS, nInode, clustInd, op))

InitUndo ==
  /\ sb = fillInSuperBlock(IPB, DZoneTotalOK)
  /\ itable = fillInINT(IPB, 1, 1)
  /\ ctinmt = fillInCIT(DZoneTotalOK)
  /\ bmapt = fillInBitMapT(DZoneTotalOK)
  /\ dzone = fillInDZone(DZoneTotalOK)
  /\ sirc = NoSlot
  /\ drc = NoSlot
  /\ proc = [uid |-> 1, gid |-> 1]
  /\ nops = 0
  /\ ret = [op |-> "mkfs", err |-> OK, out |-> 0, arg |-> <<>>, allok |-> TRUE,
            snap |-> Snap]

NextUndo ==
  \/ AllocInodeUndo(INODE_FILE)
  \/ \E n \in 0..(sb.itotal - 1), ci \in 0..(MAX_FILE_CLUSTERS - 1),
        op \in {ALLOC, FREE, FREE_CLEAN} :
       HandleFileClusterUndo(n, ci, op)

SpecUndo == InitUndo /\ [][NextUndo]_vars

\* the step releases with FREE_CLEAN the reference that the call before it
\* has allocated
UndoStep ==
  /\ ret.op = "handleFileCluster"
  /\ ret.arg[3] = ALLOC
  /\ ret.err = OK
  /\ ret'.op = "handleFileCluster"
  /\ ret'.arg = <<ret.arg[1], ret.arg[2], FREE_CLEAN>>

\* the inode of the step
UndoInode == ret.arg[1]

\* the step leaves d, i1, i2 and clucount of the inode, the cluster-to-inode
\* mapping table and dzone_free as they were before the call preceding it
Restored ==
  /\ ret'.err = OK
  /\ itable'[UndoInode].d = ret.snap.itable[UndoInode].d
  /\ itable'[UndoInode].i1 = ret.snap.itable[UndoInode].i1
  /\ itable'[UndoInode].i2 = ret.snap.itable[UndoInode].i2
  /\ itable'[UndoInode].clucount = ret.snap.itable[UndoInode].clucount
  /\ ctinmt' = ret.snap.ctinmt
  /\ sb'.dzone_free = ret.snap.dzone_free

MaxOpsBulk == 5

\* the reference held in slot clustInd of the list of references of an inode
SlotRef(ino, clustInd) ==
  IF clustInd < N_DIRECT THEN ino.d[clustInd]
  ELSE IF clustInd < N_DIRECT + RPC
  THEN IF ino.i1 = NULL_CLUSTER THEN NULL_CLUSTER
       ELSE RefView(dzone[ino.i1])[clustInd - N_DIRECT]
  ELSE IF ino.i2 = NULL_CLUSTER THEN NULL_CLUSTER
  ELSE LET k == clustInd - N_DIRECT - RPC
           refSI == RefView(dzone[ino.i2])[k \div RPC]
       IN  IF refSI = NULL_CLUSTER THEN NULL_CLUSTER
           ELSE RefView(dzone[refSI])[k % RPC]

\* the slots, the mapping table and the insertion cache as they are before
\* a call
SnapBulk ==
  [slots |-> [n \in DOMAIN itable |->
                [ci \in 0..(MAX_FILE_CLUSTERS - 1) |-> SlotRef(itable[n], ci)]],
   ctinmt |-> ctinmt,
   insert |-> sb.dzone_insert]

CallBulk(op, arg, r) ==
  /\ ret.allok
  /\ nops < MaxOpsBulk
  /\ Commit(r.st)
  /\ ret' = [op |-> op, err |-> r.err, out |-> r.out, arg |-> arg,
             allok |-> r.err = OK, snap |-> SnapBulk]
  /\ nops' = nops + 1
  /\ UNCHANGED proc

AllocInodeBulk(type) ==
  CallBulk("allocInode", <<>>, soAllocInode(FS, type, proc.uid, proc.gid))

FreeInodeBulk(nInode) ==
  CallBulk("freeInode", <<nInode>>, soFreeInode(FS, nInode))

HandleFileClusterBulk(nInode, clustInd, op) ==
  CallBulk("handleFileCluster", <<nInode, clustInd, op>>,
           soHandleFileCluster(FS, nInode, clustInd, op))

HandleFileClustersBulk(nInode, clustIndIn, op) ==
  CallBulk("handleFileClusters", <<nInode, clustIndIn, op>>,
           soHandleFileClusters(FS, nInode, clustIndIn, op))

InitBulk ==
  /\ sb = fillInSuperBlock(IPB, DZoneTotal)
  /\ itable = fillInINT(IPB, 1, 1)
  /\ ctinmt = fillInCIT(DZoneTotal)
  /\ bmapt = fillInBitMapT(DZoneTotal)
  /\ dzone = fillInDZone(DZoneTotal)
  /\ sirc = NoSlot
  /\ drc = NoSlot
  /\ proc = [uid |-> 1, gid |-> 1]
  /\ nops = 0
  /\ ret = [op |-> "mkfs", err |-> OK, out |-> 0, arg |-> <<>>, allok |-> TRUE,
            snap |-> SnapBulk]

NextBulk ==
  \/ AllocInodeBulk(INODE_FILE)
  \/ \E n \in 1..(sb.itotal - 1) : FreeInodeBulk(n)
  \/ \E n \in 1..(sb.itotal - 1), ci \in 0..(MAX_FILE_CLUSTERS - 1) :
       HandleFileClusterBulk(n, ci, ALLOC)
  \/ \E n \in 1..(sb.itotal - 1), ci \in 0..(MAX_FILE_CLUSTERS - 1),
        op \in {FREE, FREE_CLEAN, CLEAN} :
       HandleFileClustersBulk(n, ci, op)

SpecBulk == InitBulk /\ [][NextBulk]_vars

\* the last call was a successful soHandleFileClusters
Bulk == ret.op = "handleFileClusters" /\ ret.err = OK

\* slot ci of the inode of the last call is as it was before the call: same
\* reference, same map entry of the cluster, and the cluster has not entered
\* the insertion cache
Untouched(ci) ==
  LET ref == ret.snap.slots[ret.arg[1]][ci]
      before == [sb |-> [dzone_insert |-> ret.snap.insert]]
  IN  /\ SlotRef(itable[ret.arg[1]], ci) = ref
      /\ ref # NULL_CLUSTER =>
           /\ ctinmt[ref] = ret.snap.ctinmt[ref]
           /\ ref \in InsertRefs(FS) => ref \in InsertRefs(before)

\* the operation of the last call has acted on slot ci, which held a
\* reference: the cluster is free unless the inode was being cleaned, and
\* unless it was just freed it is neither referenced nor mapped any more
Applied(ci) ==
  LET ref == ret.snap.slots[ret.arg[1]][ci]
  IN  /\ ret.arg[3] # CLEAN => soQCheckStatDC(FS, ref) = "FREE_CLT"
      /\ ret.arg[3] # FREE =>
           /\ SlotRef(itable[ret.arg[1]], ci) = NULL_CLUSTER
           /\ ctinmt[ref] = NULL_INODE

\* C33: a successful soHandleFileClusters(n, clustIndIn, op) applies op to
\* every non-null slot of index clustIndIn or more and leaves every slot
\* below clustIndIn untouched, wherever clustIndIn lies.
C33_FromIndex ==
  Bulk =>
    \A ci \in 0..(MAX_FILE_CLUSTERS - 1) :
      IF ci < ret.arg[2] THEN Untouched(ci)
      ELSE ret.snap.slots[ret.arg[1]][ci] # NULL_CLUSTER => Applied(ci)

\* the positions of the insertion cache holding a cluster that the last call
\* has put there
Entered ==
  LET before == [sb |-> [dzone_insert |-> ret.snap.insert]]
  IN  {i \in 0..(DZONE_CACHE_SIZE - 1) :
         /\ i < sb.dzone_insert.cache_idx
         /\ sb.dzone_insert.cache[i] \notin InsertRefs(before)
         /\ \E ci \in 0..(MAX_FILE_CLUSTERS - 1) :
              ret.snap.slots[ret.arg[1]][ci] = sb.dzone_insert.cache[i]}

\* the slot that held, before the last call, the cluster at position i of
\* the insertion cache
FreedSlot(i) ==
  CHOOSE ci \in 0..(MAX_FILE_CLUSTERS - 1) :
    ret.snap.slots[ret.arg[1]][ci] = sb.dzone_insert.cache[i]

\* C34: soHandleFileClusters handles the non-null slots in strictly
\* decreasing order of clustInd, so after a successful FREE or FREE_CLEAN
\* the clusters it has freed lie in the insertion cache, which fills from
\* position 0 up, from the highest slot to the lowest.
C34_Decreasing ==
  (Bulk /\ ret.arg[3] \in {FREE, FREE_CLEAN}) =>
    \A i, j \in Entered : i < j => FreedSlot(i) > FreedSlot(j)

(* ------------------------------------------------------------------ *)
(* The bitmap table the formatter leaves.                              *)
(* ------------------------------------------------------------------ *)
\* the references whose bit is 1 in the bitmap table
OneBits ==
  {c \in 0..(sb.fctable_size * BITS_PER_BLOCK - 1) : BMapBit(bmapt, c)}

\* C35: right after formatting the bits of the bitmap table that are 1 are
\* those of the clusters 1 .. dzone_total - 1, whatever dzone_total is:
\* bit 0 is 0, no bit from dzone_total on is 1, and the bits that are 1 are
\* dzone_free in number.
C35_Bitmap ==
  ret.op = "mkfs" =>
    /\ OneBits = 1..(sb.dzone_total - 1)
    /\ Cardinality(OneBits) = sb.dzone_free

(* ------------------------------------------------------------------ *)
(* The parameters of the architecture on devices of every size.        *)
(* ------------------------------------------------------------------ *)
\* the devices, from the empty one on, and the numbers of inodes asked for
MaxBlocksLayout == 40

MaxInodesLayout == 48

InitLayout ==
  \E ntotal \in 0..MaxBlocksLayout, itotal \in 0..MaxInodesLayout :
    /\ sb = <<>>
    /\ itable = <<>>
    /\ ctinmt = <<>>
    /\ bmapt = <<>>
    /\ dzone = <<>>
    /\ sirc = NoSlot
    /\ drc = NoSlot
    /\ proc = [uid |-> 1, gid |-> 1, ntotal |-> ntotal, itotal |-> itotal]
    /\ nops = 0
    /\ ret = [op |-> "createEmptyFile", err |-> OK, out |-> <<>>,
              arg |-> <<ntotal>>, allok |-> TRUE]

\* main of mkfs_sofs13 up to the call of fillInSuperBlock, and the fields
\* of the superblock that fillInSuperBlock derives from the parameters
Layout ==
  /\ ret.op = "createEmptyFile"
  /\ \E lay \in {mainLayout(proc.ntotal, proc.itotal, Build)} :
       ret' = [op |-> "layout", err |-> OK,
               out |-> [lay |-> lay,
                        sb |-> sbGeometry(lay.itotal \div Build.IPB,
                                          lay.ctinmblktotal, lay.fcblktotal,
                                          lay.nclusttotal)],
               arg |-> <<proc.ntotal, proc.itotal>>, allok |-> TRUE]
  /\ nops' = nops + 1
  /\ UNCHANGED <<sb, itable, ctinmt, bmapt, dzone, sirc, drc, proc>>

NextLayout == Layout

SpecLayout == InitLayout /\ [][NextLayout]_vars

\* the layout computed fills the device: the regions follow one another
\* from block 1 on, the tables are large enough for the data zone, and the
\* blocks add up to ntotal
Fits(ntotal, lay, g) ==
  /\ g.itable_start = 1
  /\ g.ciutable_start = g.itable_start + g.itable_size
  /\ g.fctable_start = g.ciutable_start + g.ciutable_size
  /\ g.dzone_start = g.fctable_start + g.fctable_size
  /\ lay.itotal = g.itable_size * Build.IPB
  /\ g.ciutable_size * Build.RPB >= g.dzone_total
  /\ g.fctable_size * Build.BITS_PER_BLOCK >= g.dzone_total
  /\ 1 + g.itable_size + g.ciutable_size + g.fctable_size
       + g.dzone_total * Build.BLOCKS_PER_CLUSTER = ntotal

\* C36: for every device size and every number of inodes asked for, the
\* layout the formatter computes has itable_start = 1, every region
\* starting where the one before ends, itotal = itable_size * IPB, tables
\* large enough for dzone_total, blocks adding up to ntotal, and none of
\* the subtractions that lead to it goes below zero.
C36_Layout ==
  ret.op = "layout" =>
    /\ Fits(ret.arg[1], ret.out.lay, ret.out.sb)
    /\ ~ret.out.lay.wrapped

(* ------------------------------------------------------------------ *)
(* One reference at most to every data cluster.                        *)
(* ------------------------------------------------------------------ *)
\* the reference slots of an inode that are not null, as (table, position,
\* reference): d is table -1, i1 and i2 are positions 0 and 1 of table -2
RefSlots(ino) ==
  DataRefs(ino)
    \cup {<<-2, 0, c>> : c \in {ino.i1} \ {NULL_CLUSTER}}
    \cup {<<-2, 1, c>> : c \in {ino.i2} \ {NULL_CLUSTER}}
    \cup (IF ino.i2 = NULL_CLUSTER THEN {}
          ELSE {<<ino.i2, k, RefView(dzone[ino.i2])[k]>> :
                  k \in {j \in 0..(RPC - 1) :
                           RefView(dzone[ino.i2])[j] # NULL_CLUSTER}})

\* the slots of the inodes in use that refer to cluster c
SlotsOn(c) ==
  {<<n, r>> \in UNION {{n} \X RefSlots(itable[n]) :
                         n \in {k \in DOMAIN itable : InUse(k)}} : r[3] = c}

\* C37: after successful calls every data cluster is in one reference slot
\* at most (a d[k], i1, i2 or an entry of a cluster of references) over all
\* the inodes in use, and the cluster soAllocDataCluster has just returned
\* is not cluster 0 and is in no slot of an inode in use, also when it is a
\* dirty cluster that is used again.
C37_OneSlot ==
  ret.allok =>
    /\ \A c \in 0..(sb.dzone_total - 1) : Cardinality(SlotsOn(c)) <= 1
    /\ ret.op = "allocDataCluster" => (ret.out # 0 /\ SlotsOn(ret.out) = {})

(* ------------------------------------------------------------------ *)
(* Reference counts and the entries of the directories.                *)
(* ------------------------------------------------------------------ *)
\* the entries in use, over the directories in use, that refer to inode n,
\* as (directory, index) pairs; "." and ".." count
EntriesOn(n) ==
  UNION {{<<p, e[1]>> : e \in {d \in DirEntries(FS, p) :
                                  InUseEntry(d[2]) /\ d[2].nInode = n}} :
         p \in Directories}

\* C38: after successful calls of soAddAttDirEntry (ADD and ATTACH) and
\* soRemDetachDirEntry only, the refcount of every inode in use is the
\* number of the entries in use that refer to it, "." and ".." included.
C38_RefCount ==
  (ret.allok /\ ret.op \in {"mkfs", "addAttDirEntry", "remDetachDirEntry"}) =>
    \A n \in DOMAIN itable :
      InUse(n) => itable[n].refcount = Cardinality(EntriesOn(n))

\* the entry at index k of the directory n in the file system s; an index
\* past the clusters of the directory stands for a clean entry
EntryAt(s, n, k) ==
  IF \E e \in DirEntries(s, n) : e[1] = k
  THEN (CHOOSE e \in DirEntries(s, n) : e[1] = k)[2]
  ELSE CleanEntry

\* the indexes whose entry the step changes in the directory of the call
ChangedSlots ==
  {k \in 0..((MAX_FILE_CLUSTERS * DPC) - 1) :
     EntryAt(FS', AddDir, k) # EntryAt(FS, AddDir, k)}

\* C39: a successful soAddAttDirEntry(dir, name, ...) changes one entry
\* slot of dir and no other: every entry in use before the call is in use
\* after it with the same name and nInode, every dirty-empty entry keeps
\* its name[MAX_NAME] and its nInode, whatever index soGetDirEntryByName
\* gave, index 0 of a cluster the directory already has included.
C39_OneEntry ==
  [][(AddStep /\ ret'.err = OK /\ AddEnt # AddDir) =>
       /\ Cardinality(ChangedSlots) = 1
       /\ \A e \in DirEntries(FS, AddDir) :
            /\ InUseEntry(e[2]) => EntryAt(FS', AddDir, e[1]) = e[2]
            /\ DirtyEmpty(e[2]) =>
                 /\ EntryAt(FS', AddDir, e[1]).name[MAX_NAME] = e[2].name[MAX_NAME]
                 /\ EntryAt(FS', AddDir, e[1]).nInode = e[2].nInode]_vars

(* ------------------------------------------------------------------ *)
(* The allocator on a device of two blocks of bitmap table.            *)
(* ------------------------------------------------------------------ *)
\* data clusters of the device: one more than a block of the bitmap table
\* holds bits for
DZoneTotalScan == BITS_PER_BLOCK + 1

\* calls explored: enough to allocate every cluster, free one and allocate
\* again
MaxOpsScan == 18

\* the clusters given to soFreeDataCluster: one of byte 0 and one of byte 1
\* of block 0 of the bitmap table, and the one of block 1
FreedScan == {3, 8, BITS_PER_BLOCK}

\* a call made while every call before it has returned with success
CallScan(op, arg, r) ==
  /\ ret.allok
  /\ nops < MaxOpsScan
  /\ Perform(op, arg, r)

AllocDataClusterScan ==
  CallScan("allocDataCluster", <<sb.dzone_free>>, soAllocDataCluster(FS))

FreeDataClusterScan(nClust) ==
  CallScan("freeDataCluster", <<nClust>>, soFreeDataCluster(FS, nClust))

InitScan == mkfs(IPB, DZoneTotalScan, 1, 1)

NextScan ==
  \/ AllocDataClusterScan
  \/ \E nClust \in FreedScan : FreeDataClusterScan(nClust)

SpecScan == InitScan /\ [][NextScan]_vars

\* C40: every call of soAllocDataCluster terminates and returns success or
\* an error: neither scan of soReplenish, the one made after soDeplete
\* included, goes round the bitmap table for ever ("HANG" is what the model
\* gives for a scan that has gone once round the table without filling
\* the cache, from where it can only repeat itself).
C40_Terminates == ret.err # "HANG"

====
